---------------------------- MODULE Spec2Model ----------------------------
(***************************************************************************)
(* Model of the predictive analytics engine of the Student Performance     *)
(* Dashboard: LinearRegressionModel and StudentClusterer (mlModels.ts),    *)
(* over the Student records of generateStudentData.ts.                     *)
(*                                                                         *)
(* JavaScript numbers are modelled as exact rationals extended with the    *)
(* IEEE-754 special values: a number is a pair <<n, d>>; d > 0 is the      *)
(* rational n/d in lowest terms, <<1,0>> is Infinity, <<-1,0>> is          *)
(* -Infinity and <<0,0>> is NaN.  Rounding is modelled where a result is   *)
(* compared with 0 (calculateCorrelation) and not elsewhere.  The sign of  *)
(* zero is not modelled either: the only operation of the engine that      *)
(* reads it is the division by a pivot (matrixInverse), and a pivot that   *)
(* is zero is the result of a subtraction of finite values in a row that   *)
(* was never scaled, which IEEE-754 makes +0.                              *)
(***************************************************************************)
EXTENDS Integers, Sequences, FiniteSets, TLC

VARIABLES
    coefficients,   \* LinearRegressionModel.coefficients: <<>> is {}
    intercept,      \* LinearRegressionModel.intercept
    isTrained,      \* LinearRegressionModel.isTrained
    clusters,       \* StudentClusterer.clusters
    centroids,      \* StudentClusterer.centroids
    clustererIsTrained, \* StudentClusterer.isTrained
    km,             \* the locals of kmeans in the last clusterStudents call
    runs,           \* the number of clusterStudents calls made so far
    call,           \* the last call made on an engine object: [op, arg]
    ret,            \* how that call ended: [status, error, value]
    records,        \* the caller's records passed to that call, as it left them
    isDragOver,     \* FileUpload isDragOver
    isProcessing,   \* FileUpload isProcessing
    uploadStatus,   \* FileUpload uploadStatus
    fileName,       \* FileUpload fileName
    uploaded,       \* the files passed to processFile so far, in call order
    reading,        \* the processFile calls suspended at await file.text()
    callbacks,      \* the onDataLoad / onError invocations made so far
    searchTerm,     \* StudentTable searchTerm
    sortConfig,     \* StudentTable sortConfig
    filterConfig,   \* StudentTable filterConfig
    showFilters,    \* StudentTable showFilters
    currentPage,    \* StudentTable currentPage
    pageSize,       \* StudentTable pageSize
    pendingResets,  \* the timers of debouncedSearch that have not fired yet
    dashboardStudents, \* Dashboard props.students
    isLoading,      \* Dashboard isLoading
    pendingEffect,  \* whether the effect of Dashboard is scheduled and has not run
    renders,        \* the number of students lists Dashboard was rendered with
    now,            \* the time, in units of the clock of the timers
    timeoutId,      \* timeoutId of the closure debounce returned: 0 is undefined
    timers,         \* the timers set by setTimeout that neither fired nor were cleared
    debounced,      \* the calls of the function debounce returned: [time, arg]
    invoked         \* the invocations of func: [time, arg, calls]

regressionVars == <<coefficients, intercept, isTrained>>
clustererVars == <<clusters, centroids, clustererIsTrained, km, runs>>
engineVars == <<regressionVars, clustererVars, call, ret, records>>
uploadVars == <<isDragOver, isProcessing, uploadStatus, fileName, uploaded, reading, callbacks>>
tableVars == <<searchTerm, sortConfig, filterConfig, showFilters, currentPage, pageSize,
              pendingResets>>
dashboardVars == <<dashboardStudents, isLoading, pendingEffect, renders>>
debounceVars == <<now, timeoutId, timers, debounced, invoked>>
uiVars == <<uploadVars, tableVars, dashboardVars, debounceVars>>
notUploadVars == <<engineVars, tableVars, dashboardVars, debounceVars>>
notTableVars == <<engineVars, uploadVars, dashboardVars, debounceVars>>
vars == <<coefficients, intercept, isTrained,
          clusters, centroids, clustererIsTrained, km, runs, call, ret, records,
          isDragOver, isProcessing, uploadStatus, fileName, uploaded, reading, callbacks,
          searchTerm, sortConfig, filterConfig, showFilters, currentPage, pageSize,
          pendingResets,
          dashboardStudents, isLoading, pendingEffect, renders,
          now, timeoutId, timers, debounced, invoked>>

---------------------------------------------------------------------------
(* JavaScript numbers *)

NaN == <<0, 0>>
PosInf == <<1, 0>>
NegInf == <<-1, 0>>

AbsInt(a) == IF a < 0 THEN -a ELSE a

SgnInt(a) == IF a < 0 THEN -1 ELSE IF a > 0 THEN 1 ELSE 0

RECURSIVE Gcd(_, _)
Gcd(a, b) == IF b = 0 THEN a ELSE Gcd(b, a % b)

\* the rational n/d, d # 0, in lowest terms with a positive denominator
Frac(n, d) ==
    LET g == Gcd(AbsInt(n), AbsInt(d))
        s == IF d < 0 THEN -1 ELSE 1
    IN  <<(s * n) \div g, (s * d) \div g>>

Num(i) == <<i, 1>>

IsNaN(x) == x = NaN
IsFinite(x) == x[2] # 0
IsZero(x) == x[2] # 0 /\ x[1] = 0

\* x + y
Add(x, y) ==
    IF IsNaN(x) \/ IsNaN(y) THEN NaN
    ELSE IF IsFinite(x) /\ IsFinite(y)
         THEN Frac(x[1] * y[2] + y[1] * x[2], x[2] * y[2])
    ELSE IF IsFinite(x) THEN y
    ELSE IF IsFinite(y) THEN x
    ELSE IF x = y THEN x ELSE NaN

\* -x
Neg(x) == <<-x[1], x[2]>>

\* x - y
Sub(x, y) == Add(x, Neg(y))

\* x * y
Mul(x, y) ==
    IF IsNaN(x) \/ IsNaN(y) THEN NaN
    ELSE IF IsFinite(x) /\ IsFinite(y)
         THEN Frac(x[1] * y[1], x[2] * y[2])
    ELSE IF IsZero(x) \/ IsZero(y) THEN NaN
    ELSE <<SgnInt(x[1]) * SgnInt(y[1]), 0>>

\* x / y
Div(x, y) ==
    IF IsNaN(x) \/ IsNaN(y) THEN NaN
    ELSE IF IsZero(y)
         THEN IF IsZero(x) THEN NaN ELSE <<SgnInt(x[1]), 0>>
    ELSE IF IsFinite(y)
         THEN IF IsFinite(x) THEN Frac(x[1] * y[2], x[2] * y[1])
              ELSE <<SgnInt(x[1]) * SgnInt(y[1]), 0>>
    ELSE IF IsFinite(x) THEN Num(0) ELSE NaN

\* x < y
Lt(x, y) ==
    IF IsNaN(x) \/ IsNaN(y) THEN FALSE
    ELSE IF IsFinite(x) /\ IsFinite(y) THEN x[1] * y[2] < y[1] * x[2]
    ELSE IF IsFinite(x) THEN y = PosInf
    ELSE IF IsFinite(y) THEN x = NegInf
    ELSE x = NegInf /\ y = PosInf

\* x <= y
Le(x, y) == ~IsNaN(x) /\ ~IsNaN(y) /\ ~Lt(y, x)

\* Math.abs(x)
MathAbs(x) == <<AbsInt(x[1]), x[2]>>

\* Math.max(x, y)
MathMax(x, y) ==
    IF IsNaN(x) \/ IsNaN(y) THEN NaN ELSE IF Lt(x, y) THEN y ELSE x

\* Math.min(x, y)
MathMin(x, y) ==
    IF IsNaN(x) \/ IsNaN(y) THEN NaN ELSE IF Lt(y, x) THEN y ELSE x

\* whether the natural number n is a square
IsSquareInt(n) == \E r \in 0..n : r * r = n

\* whether the finite number x has a rational square root
HasExactSqrt(x) == x[1] >= 0 /\ IsSquareInt(x[1]) /\ IsSquareInt(x[2])

\* Math.sqrt(x), for the x whose root is rational
MathSqrt(x) ==
    IF IsNaN(x) \/ x[1] < 0 THEN NaN
    ELSE IF ~IsFinite(x) THEN PosInf
    ELSE <<CHOOSE r \in 0..x[1] : r * r = x[1], CHOOSE r \in 1..x[2] : r * r = x[2]>>

\* Math.pow(x, 2)
Square(x) == Mul(x, x)

\* array.reduce((sum, val) => sum + val, 0)
RECURSIVE SumSeq(_, _)
SumSeq(s, k) == IF k = 0 THEN Num(0) ELSE Add(SumSeq(s, k - 1), s[k])

Sum(s) == SumSeq(s, Len(s))

---------------------------------------------------------------------------
(* Student records *)

FeatureNames == <<"comprehension", "attention", "focus", "retention", "engagement_time">>

\* a Student with every numeric field set
Student(c, a, f, r, e, y) ==
    [comprehension |-> Num(c), attention |-> Num(a), focus |-> Num(f),
     retention |-> Num(r), engagement_time |-> Num(e), assessment_score |-> Num(y)]

\* student.<field> || 0 of a Partial<Student>: a missing field, 0 and NaN give 0
OrZero(student, field) ==
    IF field \notin DOMAIN student THEN Num(0)
    ELSE IF IsNaN(student[field]) THEN Num(0)
    ELSE student[field]

---------------------------------------------------------------------------
(* Errors *)

\* new Error('Model must be trained before making predictions')
NotTrainedError == "Error: Model must be trained before making predictions"

\* reading a property of undefined (X[0].length of an empty array)
TypeError == "TypeError: Cannot read properties of undefined"

Returned(v) == [status |-> "returned", error |-> "", value |-> v]
Threw(e) == [status |-> "threw", error |-> e, value |-> <<>>]

---------------------------------------------------------------------------
(* Matrix algebra: a matrix is a sequence of rows *)

Transpose(matrix) ==
    [col \in 1..Len(matrix[1]) |-> [row \in 1..Len(matrix) |-> matrix[row][col]]]

MatrixMultiply(a, b) ==
    [i \in 1..Len(a) |->
        [j \in 1..Len(b[1]) |->
            Sum([k \in 1..Len(b) |-> Mul(a[i][k], b[k][j])])]]

VectorMultiply(matrix, vector) ==
    [i \in 1..Len(matrix) |->
        Sum([k \in 1..Len(matrix[i]) |-> Mul(matrix[i][k], vector[k])])]

\* the pivot search of matrixInverse: rows k..n against the best so far
RECURSIVE FindMaxRow(_, _, _, _)
FindMaxRow(augmented, i, k, maxRow) ==
    IF k > Len(augmented) THEN maxRow
    ELSE FindMaxRow(augmented, i, k + 1,
            IF Lt(MathAbs(augmented[maxRow][i]), MathAbs(augmented[k][i]))
            THEN k ELSE maxRow)

\* the one element of a singleton set.  Only({ e(v) : v \in {x} }) is
\* e(x) with x evaluated once: TLC evaluates the definitions of a LET, and the
\* arguments of an operator, again at every use
Only(S) == CHOOSE x \in S : TRUE

\* [augmented[i], augmented[maxRow]] = [augmented[maxRow], augmented[i]]
SwapRows(augmented, i, maxRow) ==
    [augmented EXCEPT ![i] = augmented[maxRow], ![maxRow] = augmented[i]]

\* augmented[i][j] /= pivot, for every column j
ScaleRow(row, pivot) == [j \in 1..Len(row) |-> Div(row[j], pivot)]

\* augmented[k][j] -= factor * augmented[i][j], for every row k # i
Eliminate(augmented, i) ==
    [k \in 1..Len(augmented) |->
        IF k = i THEN augmented[i]
        ELSE [j \in 1..Len(augmented[k]) |->
                Sub(augmented[k][j], Mul(augmented[k][i], augmented[i][j]))]]

\* one round of the Gaussian elimination of matrixInverse, on column i
GaussStep(augmented, i) ==
    Only({ Only({ Eliminate(scaled, i) :
                    scaled \in {[swapped EXCEPT ![i] = ScaleRow(swapped[i], swapped[i][i])]} }) :
             swapped \in {SwapRows(augmented, i, FindMaxRow(augmented, i, i + 1, i))} })

RECURSIVE GaussLoop(_, _)
GaussLoop(augmented, i) ==
    IF i > Len(augmented) THEN augmented
    ELSE Only({ GaussLoop(next, i + 1) : next \in {GaussStep(augmented, i)} })

MatrixInverse(matrix) ==
    LET n == Len(matrix)
        identity == [i \in 1..n |-> [j \in 1..n |-> IF i = j THEN Num(1) ELSE Num(0)]]
    IN  Only({ [i \in 1..n |-> SubSeq(reduced[i], n + 1, 2 * n)] :
                 reduced \in {GaussLoop([i \in 1..n |-> matrix[i] \o identity[i]], 1)} })

---------------------------------------------------------------------------
(* LinearRegressionModel *)

\* the design rows of train
FeatureRow(student) ==
    <<student.comprehension, student.attention, student.focus,
      student.retention, Div(student.engagement_time, Num(100))>>

\* the normal equation of fitLinearRegression: (X^T * X)^-1 * X^T * y
NormalEquation(XWithIntercept, y) ==
    Only({ Only({ VectorMultiply(XTXInverse, VectorMultiply(XTranspose, y)) :
                    XTXInverse \in {MatrixInverse(MatrixMultiply(XTranspose, XWithIntercept))} }) :
             XTranspose \in {Transpose(XWithIntercept)} })

\* fitLinearRegression that does not skip the intercept when it names the
\* coefficients: coefficients[name] = coeffs[index]
FitLinearRegressionNoSkip(X, y) ==
    IF Len(X) = 0 THEN Threw(TypeError)
    ELSE Only({ Returned([intercept |-> coeffs[1],
                          coefficients |-> [f \in 1..Len(FeatureNames) |-> coeffs[f]]]) :
                  coeffs \in {NormalEquation([r \in 1..Len(X) |-> <<Num(1)>> \o X[r]], y)} })

\* fitLinearRegression(X, y, featureNames); X[0].length of an empty X throws
FitLinearRegression(X, y) ==
    IF Len(X) = 0 THEN Threw(TypeError)
    ELSE Only({ Returned([intercept |-> coeffs[1],
                          coefficients |-> [f \in 1..Len(FeatureNames) |-> coeffs[f + 1]]]) :
                  coeffs \in {NormalEquation([r \in 1..Len(X) |-> <<Num(1)>> \o X[r]], y)} })

\* LinearRegressionModel.train: what the call does to the model and how it ends
TrainOutcome(students) ==
    LET X == [i \in 1..Len(students) |-> FeatureRow(students[i])]
        y == [i \in 1..Len(students) |-> students[i].assessment_score]
    IN  FitLinearRegression(X, y)

\* the result object of predict: prediction, confidence and importance
PredictValue(coeffs, icpt, student) ==
    LET features == <<OrZero(student, "comprehension"),
                      OrZero(student, "attention"),
                      OrZero(student, "focus"),
                      OrZero(student, "retention"),
                      Div(OrZero(student, "engagement_time"), Num(100))>>
        contribution == [f \in 1..Len(features) |-> Mul(features[f], coeffs[f])]
        importance == [f \in 1..Len(features) |-> MathAbs(coeffs[f])]
    IN  Only({ [predicted_score |-> MathMax(Num(0), MathMin(Num(100), prediction)),
                confidence |->
                    MathMax(Frac(6, 10),
                        MathMin(Frac(95, 100),
                            Sub(Num(1), Div(MathAbs(Sub(prediction, Num(75))), Num(100))))),
                feature_importance |->
                    [f \in 1..Len(features) |->
                        Mul(Div(importance[f], totalImportance), Num(100))]] :
               prediction \in {Add(icpt, Sum(contribution))},
               totalImportance \in {Sum(importance)} })

\* predict without its isTrained guard: the coefficients of {} are undefined,
\* and a product with undefined is NaN
PredictOutcomeUnguarded(coeffs, icpt, trained, student) ==
    Returned(PredictValue(IF trained THEN coeffs ELSE [f \in 1..Len(FeatureNames) |-> NaN],
                          icpt, student))

\* LinearRegressionModel.predict on a model in the given state
PredictOutcome(coeffs, icpt, trained, student) ==
    IF ~trained THEN Threw(NotTrainedError)
    ELSE Returned(PredictValue(coeffs, icpt, student))

\* LinearRegressionModel.getModelSummary on a model in the given state
ModelSummary(coeffs, icpt, trained) ==
    Returned([type |-> "Linear Regression", coefficients |-> coeffs,
              intercept |-> icpt, trained |-> trained])

---------------------------------------------------------------------------
(* Model metrics *)

\* calculateR2Score(actual, predicted) = 1 - residualSumSquares / totalSumSquares
CalculateR2Score(actual, predicted) ==
    Only({ Sub(Num(1),
               Div(Sum([i \in 1..Len(actual) |-> Square(Sub(actual[i], predicted[i]))]),
                   Sum([i \in 1..Len(actual) |-> Square(Sub(actual[i], actualMean))]))) :
             actualMean \in {Div(Sum(actual), Num(Len(actual)))} })

\* calculateMSE(actual, predicted)
CalculateMSE(actual, predicted) ==
    Div(Sum([i \in 1..Len(actual) |-> Square(Sub(actual[i], predicted[i]))]),
        Num(Len(actual)))

\* the number of significant bits that a number keeps
MantissaBits == 8

RECURSIVE PowerOfTwo(_)
PowerOfTwo(k) == IF k = 0 THEN 1 ELSE 2 * PowerOfTwo(k - 1)

\* n/d > 0 scaled by powers of base into lo <= n/d < lo * base, as
\* <<n, d, up, down>>: each scaling by base counts a factor 2 in up or down
RECURSIVE Scaled(_, _, _, _, _, _)
Scaled(n, d, up, down, base, lo) ==
    IF n < lo * d THEN Scaled(n * base, d, up, 2 * down, base, lo)
    ELSE IF n >= lo * base * d THEN Scaled(n, d * base, 2 * up, down, base, lo)
    ELSE <<n, d, up, down>>

\* the result of an arithmetic operation whose exact value is x: the nearest
\* number with MantissaBits significant bits, ties to the even one
ToDouble(x) ==
    IF ~IsFinite(x) \/ IsZero(x) THEN x
    ELSE Only({ Only({ Frac(SgnInt(x[1]) * mantissa * s[3], s[4]) :
                         mantissa \in {IF \/ 2 * (s[1] % s[2]) > s[2]
                                          \/ /\ 2 * (s[1] % s[2]) = s[2]
                                             /\ (s[1] \div s[2]) % 2 = 1
                                       THEN (s[1] \div s[2]) + 1
                                       ELSE s[1] \div s[2]} }) :
                  s \in {Scaled(AbsInt(x[1]), x[2], 1, 1, 2,
                                PowerOfTwo(MantissaBits - 1))} })

\* Math.sqrt(x) as a number: the number with MantissaBits significant bits
\* nearest to the root
SqrtToDouble(x) ==
    IF IsNaN(x) \/ x[1] < 0 THEN NaN
    ELSE IF ~IsFinite(x) \/ IsZero(x) THEN x
    ELSE Only({ Only({ Frac((IF 4 * s[1] > (4 * floor * floor + 4 * floor + 1) * s[2]
                             THEN floor + 1 ELSE floor) * s[3], s[4]) :
                         floor \in {CHOOSE m \in PowerOfTwo(MantissaBits - 1)
                                                  ..(PowerOfTwo(MantissaBits) - 1) :
                                       /\ m * m * s[2] <= s[1]
                                       /\ s[1] < (m + 1) * (m + 1) * s[2]} }) :
                  s \in {Scaled(x[1], x[2], 1, 1, 4,
                                PowerOfTwo(2 * (MantissaBits - 1)))} })

\* array.reduce((a, b) => a + b, 0) of numbers
RECURSIVE ReduceAdd(_, _)
ReduceAdd(s, k) ==
    IF k = 0 THEN Num(0) ELSE ToDouble(Add(ReduceAdd(s, k - 1), s[k]))

\* n * sumAB - sumA * sumB
CrossTerm(n, sumAB, sumA, sumB) ==
    ToDouble(Sub(ToDouble(Mul(Num(n), sumAB)), ToDouble(Mul(sumA, sumB))))

\* x.reduce((acc, curr, i) => acc + curr * y[i], 0)
SumOfProducts(x, y) ==
    ReduceAdd([i \in 1..Len(x) |-> ToDouble(Mul(x[i], y[i]))], Len(x))

\* calculateCorrelation(x, y): denominator === 0 ? 0 : numerator / denominator.
\* Its result depends on whether a computed number is exactly 0, so every
\* operation rounds its result as the numbers of the engine do.
CalculateCorrelation(x, y) ==
    Only({ IF IsZero(denominator) THEN Num(0)
           ELSE ToDouble(Div(numerator, denominator)) :
             numerator \in {CrossTerm(Len(x), SumOfProducts(x, y),
                                      ReduceAdd(x, Len(x)), ReduceAdd(y, Len(y)))},
             denominator \in
                {SqrtToDouble(ToDouble(Mul(
                    CrossTerm(Len(x), SumOfProducts(x, x),
                              ReduceAdd(x, Len(x)), ReduceAdd(x, Len(x))),
                    CrossTerm(Len(x), SumOfProducts(y, y),
                              ReduceAdd(y, Len(y)), ReduceAdd(y, Len(y))))))} })

\* modelPerformance of InsightsSection: the metrics of the model's predictions
\* for the students against their assessment scores; a predict that throws
\* ends it
ModelPerformanceOutcome(coeffs, icpt, trained, students) ==
    Only({ IF \E i \in 1..Len(students) : outcomes[i].status = "threw"
           THEN Threw(NotTrainedError)
           ELSE Only({ Returned([r2Score |-> CalculateR2Score(actualScores, predictions),
                                 mse |-> CalculateMSE(actualScores, predictions)]) :
                         predictions \in {[i \in 1..Len(students) |->
                                             outcomes[i].value.predicted_score]},
                         actualScores \in {[i \in 1..Len(students) |->
                                              students[i].assessment_score]} }) :
             outcomes \in {[i \in 1..Len(students) |->
                              PredictOutcome(coeffs, icpt, trained, students[i])]} })

---------------------------------------------------------------------------
(* StudentClusterer *)

\* the personas of clusterStudents, best first
Personas ==
    << [id |-> 0, name |-> "High Achievers",
        description |-> "Excellent performance across all cognitive skills"],
       [id |-> 1, name |-> "Balanced Learners",
        description |-> "Good overall performance with consistent skills"],
       [id |-> 2, name |-> "Developing Students",
        description |-> "Average performance with room for improvement"],
       [id |-> 3, name |-> "Struggling Learners",
        description |-> "Lower performance requiring targeted support"] >>

\* the default of kmeans' maxIterations
MaxIterations == 100

\* the feature rows of clusterStudents
ClusterFeatureRow(student) ==
    <<student.comprehension, student.attention, student.focus, student.retention>>

Column(features, d) == [r \in 1..Len(features) |-> features[r][d]]

\* the means of normalizeFeatures
Means(features) ==
    [d \in 1..Len(features[1]) |->
        Div(Sum(Column(features, d)), Num(Len(features)))]

\* the standard deviations of normalizeFeatures
Stds(features, means) ==
    [d \in 1..Len(features[1]) |->
        MathSqrt(Div(Sum([r \in 1..Len(features) |->
                            Square(Sub(features[r][d], means[d]))]),
                     Num(Len(features))))]

\* stds[index] || 1
OrOne(x) == IF IsZero(x) \/ IsNaN(x) THEN Num(1) ELSE x

\* normalizeFeatures(features), of a non-empty list
NormalizeFeatures(features) ==
    Only({ Only({ [r \in 1..Len(features) |->
                     [d \in 1..Len(features[r]) |->
                        Div(Sub(features[r][d], means[d]), OrOne(stds[d]))]] :
                    stds \in {Stds(features, means)} }) :
             means \in {Means(features)} })

\* euclideanDistance(a, b), kept as the number whose root it is: the engine
\* only compares distances, and Math.sqrt is monotonic
EuclideanDistance(a, b) ==
    [sqrtOf |-> Sum([d \in 1..Len(a) |-> Square(Sub(a[d], b[d]))])]

Infinity == [sqrtOf |-> PosInf]

\* distance < minDistance
DistanceLt(distance, minDistance) == Lt(distance.sqrtOf, minDistance.sqrtOf)

\* the forEach of the nearest-centroid search that lowers minDistance but
\* never records the nearer centroid
RECURSIVE NearestFromStaleLabel(_, _, _, _, _)
NearestFromStaleLabel(point, cs, index, minDistance, nearest) ==
    IF index > Len(cs) THEN nearest
    ELSE Only({ IF DistanceLt(distance, minDistance)
                THEN NearestFromStaleLabel(point, cs, index + 1, distance, nearest)
                ELSE NearestFromStaleLabel(point, cs, index + 1, minDistance, nearest) :
                  distance \in {EuclideanDistance(point, cs[index])} })

\* the forEach of the nearest-centroid search, from centroid index on
\* (centroid number c, counted from 0, is cs[c + 1])
RECURSIVE NearestFrom(_, _, _, _, _)
NearestFrom(point, cs, index, minDistance, nearest) ==
    IF index > Len(cs) THEN nearest
    ELSE Only({ IF DistanceLt(distance, minDistance)
                THEN NearestFrom(point, cs, index + 1, distance, index - 1)
                ELSE NearestFrom(point, cs, index + 1, minDistance, nearest) :
                  distance \in {EuclideanDistance(point, cs[index])} })

\* the number of the centroid nearest to point, the first one among equals
NearestCentroid(point, cs) == NearestFrom(point, cs, 1, Infinity, 0)

\* the centroid update of kmeans: the mean of the points of each cluster, and
\* the zero vector Array(d).fill(0) for a cluster without points
UpdateCentroids(data, labels, k) ==
    [c \in 1..k |->
        LET count == Cardinality({r \in 1..Len(data) : labels[r] = c - 1})
        IN  [dim \in 1..Len(data[1]) |->
                Only({ IF count > 0 THEN Div(sum, Num(count)) ELSE sum :
                         sum \in {Sum([r \in 1..Len(data) |->
                                         IF labels[r] = c - 1 THEN data[r][dim]
                                         ELSE Num(0)])} })]]

\* the locals of kmeans(data, k) before its loop: picks[i] is the value of
\* Math.floor(Math.random() * n) for centroid i
KmeansStart(data, k, picks) ==
    [pc |-> "loop", data |-> data, k |-> k,
     centroids |-> [i \in 1..k |-> data[picks[i] + 1]],
     labels |-> [r \in 1..Len(data) |-> 0],
     iter |-> 0, stop |-> "none"]

\* a round of the loop of kmeans without the check for convergence
KmeansIterationNoBreak(s) ==
    IF ~(s.iter < MaxIterations) THEN [s EXCEPT !.pc = "done", !.stop = "cap"]
    ELSE Only({ [s EXCEPT !.labels = newLabels,
                          !.centroids = UpdateCentroids(s.data, newLabels, s.k),
                          !.iter = s.iter + 1] :
                  newLabels \in {[r \in 1..Len(s.data) |->
                                    NearestCentroid(s.data[r], s.centroids)]} })

\* one round of the loop of kmeans
KmeansIteration(s) ==
    IF ~(s.iter < MaxIterations) THEN [s EXCEPT !.pc = "done", !.stop = "cap"]
    ELSE Only({ IF \A r \in 1..Len(s.data) : newLabels[r] = s.labels[r]
                THEN [s EXCEPT !.pc = "done", !.stop = "converged"]
                ELSE [s EXCEPT !.labels = newLabels,
                               !.centroids = UpdateCentroids(s.data, newLabels, s.k),
                               !.iter = s.iter + 1] :
                  newLabels \in {[r \in 1..Len(s.data) |->
                                    NearestCentroid(s.data[r], s.centroids)]} })

\* the insertion of a sort with the comparator a.average - b.average: ascending
RECURSIVE InsertByAverageAscending(_, _)
InsertByAverageAscending(sorted, item) ==
    IF Len(sorted) = 0 THEN <<item>>
    ELSE IF Lt(item.average, sorted[Len(sorted)].average)
         THEN InsertByAverageAscending(SubSeq(sorted, 1, Len(sorted) - 1), item)
                \o <<sorted[Len(sorted)]>>
         ELSE sorted \o <<item>>

\* Array.prototype.sort((a, b) => b.average - a.average): stable, descending
RECURSIVE InsertByAverage(_, _)
InsertByAverage(sorted, item) ==
    IF Len(sorted) = 0 THEN <<item>>
    ELSE IF Lt(sorted[Len(sorted)].average, item.average)
         THEN InsertByAverage(SubSeq(sorted, 1, Len(sorted) - 1), item)
                \o <<sorted[Len(sorted)]>>
         ELSE sorted \o <<item>>

RECURSIVE SortByAverage(_, _)
SortByAverage(items, n) ==
    IF n = 0 THEN <<>>
    ELSE Only({ InsertByAverage(sorted, items[n]) :
                  sorted \in {SortByAverage(items, n - 1)} })

\* centroidAverages of clusterStudents
CentroidAverages(cs) ==
    SortByAverage([c \in 1..Len(cs) |->
                      [index |-> c - 1,
                       average |-> Div(Sum(cs[c]), Num(Len(cs[c])))]],
                  Len(cs))

\* the summary of a cluster that counts the records of the clusters up to it
ClusterSummaryUpTo(students, labels, cs, item, personaIndex) ==
    LET centroid == cs[item.index + 1]
        members == {r \in 1..Len(students) : labels[r] <= item.index}
        scores == [r \in 1..Len(students) |->
                     IF r \in members THEN students[r].assessment_score ELSE Num(0)]
    IN  [cluster_id |-> item.index,
         persona |-> Personas[personaIndex + 1].name,
         description |-> Personas[personaIndex + 1].description,
         characteristics |->
            [comprehension |-> Mul(centroid[1], Num(100)),
             attention |-> Mul(centroid[2], Num(100)),
             focus |-> Mul(centroid[3], Num(100)),
             retention |-> Mul(centroid[4], Num(100)),
             count |-> Num(Cardinality(members)),
             avg_assessment_score |-> Div(Sum(scores), Num(Cardinality(members)))]]

\* the summary of the cluster ranked personaIndex (from 0)
ClusterSummary(students, labels, cs, item, personaIndex) ==
    LET centroid == cs[item.index + 1]
        members == {r \in 1..Len(students) : labels[r] = item.index}
        scores == [r \in 1..Len(students) |->
                     IF r \in members THEN students[r].assessment_score ELSE Num(0)]
    IN  [cluster_id |-> item.index,
         persona |-> Personas[personaIndex + 1].name,
         description |-> Personas[personaIndex + 1].description,
         characteristics |->
            [comprehension |-> Mul(centroid[1], Num(100)),
             attention |-> Mul(centroid[2], Num(100)),
             focus |-> Mul(centroid[3], Num(100)),
             retention |-> Mul(centroid[4], Num(100)),
             count |-> Num(Cardinality(members)),
             avg_assessment_score |-> Div(Sum(scores), Num(Cardinality(members)))]]

\* the map of clusterStudents that builds this.clusters: personas[personaIndex]
\* is undefined from the fifth cluster on, and reading its name throws
ClusterSummaries(students, labels, cs) ==
    IF Len(cs) > Len(Personas) THEN Threw(TypeError)
    ELSE Only({ Returned([p \in 1..Len(cs) |->
                            ClusterSummary(students, labels, cs, sorted[p], p - 1)]) :
                  sorted \in {CentroidAverages(cs)} })

\* ClusterResult | null
Null == [null |-> TRUE]

\* this.clusters.find(cluster => cluster.cluster_id === nearestCluster) || null
FindCluster(cls, nearestCluster) ==
    IF \E p \in 1..Len(cls) : cls[p].cluster_id = nearestCluster
    THEN cls[CHOOSE p \in 1..Len(cls) :
                /\ cls[p].cluster_id = nearestCluster
                /\ \A q \in 1..(p - 1) : cls[q].cluster_id # nearestCluster]
    ELSE Null

\* predictCluster with the guard of predict: it throws while untrained
PredictClusterOutcomeThrowing(cls, cs, trained, student) ==
    IF ~trained THEN Threw(NotTrainedError)
    ELSE Returned(FindCluster(cls,
            NearestCentroid(<<Div(OrZero(student, "comprehension"), Num(100)),
                              Div(OrZero(student, "attention"), Num(100)),
                              Div(OrZero(student, "focus"), Num(100)),
                              Div(OrZero(student, "retention"), Num(100))>>, cs)))

\* StudentClusterer.predictCluster on a clusterer in the given state
PredictClusterOutcome(cls, cs, trained, student) ==
    IF ~trained THEN Returned(Null)
    ELSE LET features == <<Div(OrZero(student, "comprehension"), Num(100)),
                           Div(OrZero(student, "attention"), Num(100)),
                           Div(OrZero(student, "focus"), Num(100)),
                           Div(OrZero(student, "retention"), Num(100))>>
         IN  Returned(FindCluster(cls, NearestCentroid(features, cs)))

---------------------------------------------------------------------------
(* FileUpload *)

\* A File is [name, readable, lines]: name is [stem, ext] ("students", "csv"
\* for students.csv, ext "" without a dot), readable tells whether
\* file.text() resolves, and lines is the text as text.trim().split('\n')
\* and line.split(',') cut it: a sequence of lines, each a sequence of cells.

\* useState<string>('') of fileName
NoName == [stem |-> "", ext |-> ""]

\* String.prototype.toLowerCase on the extensions in use
ToLowerCase(text) ==
    CASE text = "CSV" -> "csv"
      [] text = "Csv" -> "csv"
      [] text = "TXT" -> "txt"
      [] OTHER -> text

\* file.name.toLowerCase().endsWith('.csv')
EndsWithCsv(name) == ToLowerCase(name.ext) = "csv"

\* requiredFields of validateCSVStructure
RequiredFields ==
    {"student_id", "name", "class", "comprehension", "attention", "focus",
     "retention", "assessment_score", "engagement_time"}

\* the headers parseCSV converts with parseFloat
NumericFields ==
    {"comprehension", "attention", "focus", "retention", "assessment_score",
     "engagement_time"}

\* values[index] of a row without that cell
Undefined == "<undefined>"

\* the cells that are decimal numbers, with their values
DecimalTexts == {<<"0", 0>>, <<"78", 78>>, <<"84", 84>>, <<"85", 85>>,
                 <<"88", 88>>, <<"90", 90>>, <<"120", 120>>}

\* the cells that begin with a decimal number followed by other text, with
\* the value of that number
PrefixedTexts == {<<"84pts", 84>>, <<"12abc", 12>>}

\* parseFloat(value): the number the text begins with, NaN when there is none
ParseFloat(value) ==
    IF \E t \in DecimalTexts \cup PrefixedTexts : t[1] = value
    THEN Num((CHOOSE t \in DecimalTexts \cup PrefixedTexts : t[1] = value)[2])
    ELSE NaN

\* v.trim().replace(/"/g, '') on the cells in use
Unquote(cell) ==
    CASE cell = "\"Alice\"" -> "Alice"
      [] cell = " 85 " -> "85"
      [] OTHER -> cell

\* the object parseCSV builds from one line: a later column of the same
\* header overwrites an earlier one
ParseRow(headers, line) ==
    LET values == [c \in 1..Len(line) |-> Unquote(line[c])]
        LastColumn(h) == CHOOSE c \in 1..Len(headers) :
                            /\ headers[c] = h
                            /\ \A later \in (c + 1)..Len(headers) : headers[later] # h
        ValueAt(c) == IF c <= Len(values) THEN values[c] ELSE Undefined
    IN  [h \in {headers[c] : c \in 1..Len(headers)} |->
            IF h \in NumericFields
            THEN (IF IsNaN(ParseFloat(ValueAt(LastColumn(h)))) THEN Num(0)
                  ELSE ParseFloat(ValueAt(LastColumn(h))))
            ELSE ValueAt(LastColumn(h))]

\* parseCSV(csvText)
ParseCSV(lines) ==
    [i \in 1..(Len(lines) - 1) |-> ParseRow(lines[1], lines[i + 1])]

\* validateCSVStructure(data)
ValidateCSVStructure(data) ==
    IF Len(data) = 0 THEN FALSE
    ELSE \A field \in RequiredFields : field \in DOMAIN data[1]

\* the messages of processFile
NotCsvMessage == "Please upload a CSV file."
InvalidStructureMessage == "Invalid CSV structure. Please ensure your CSV has the required columns: student_id, name, class, comprehension, attention, focus, retention, assessment_score, engagement_time"
NoDataMessage == "No valid student data found in the CSV file."
ReadFailureMessage == "file.text() rejected"

\* the try block of processFile after await file.text(): the students it
\* hands to onDataLoad, or the message it hands to onError
ProcessText(file) ==
    IF ~file.readable THEN [ok |-> FALSE, students |-> <<>>, message |-> ReadFailureMessage]
    ELSE LET students == ParseCSV(file.lines)
         IN  IF ~ValidateCSVStructure(students)
             THEN [ok |-> FALSE, students |-> <<>>, message |-> InvalidStructureMessage]
             ELSE IF Len(students) = 0
             THEN [ok |-> FALSE, students |-> <<>>, message |-> NoDataMessage]
             ELSE [ok |-> TRUE, students |-> students, message |-> ""]

\* the message of the Error a callback throws
CallbackFailureMessage == "callback threw"

\* an invocation of a callback by processFile call id, and whether the
\* callback threw
OnDataLoad(id, students, threw) ==
    [id |-> id, callback |-> "onDataLoad", students |-> students, message |-> "",
     threw |-> threw]
OnError(id, message, threw) ==
    [id |-> id, callback |-> "onError", students |-> <<>>, message |-> message,
     threw |-> threw]

---------------------------------------------------------------------------
(* StudentTable *)

\* A string of the table is the sequence of its characters.
Digits == <<"0", "1", "2", "3", "4", "5", "6", "7", "8", "9">>
LowerCaseLetters ==
    <<"a", "b", "c", "d", "e", "f", "g", "h", "i", "j", "k", "l", "m",
      "n", "o", "p", "q", "r", "s", "t", "u", "v", "w", "x", "y", "z">>
UpperCaseLetters ==
    <<"A", "B", "C", "D", "E", "F", "G", "H", "I", "J", "K", "L", "M",
      "N", "O", "P", "Q", "R", "S", "T", "U", "V", "W", "X", "Y", "Z">>

IsUpperCase(ch) == \E k \in 1..Len(UpperCaseLetters) : UpperCaseLetters[k] = ch

\* String.prototype.toLowerCase, character by character
LowerCaseOf(ch) ==
    IF IsUpperCase(ch)
    THEN LowerCaseLetters[CHOOSE k \in 1..Len(UpperCaseLetters) : UpperCaseLetters[k] = ch]
    ELSE ch
StringToLowerCase(text) == [i \in 1..Len(text) |-> LowerCaseOf(text[i])]

\* String.prototype.includes
Includes(text, part) ==
    \E start \in 0..(Len(text) - Len(part)) :
        \A i \in 1..Len(part) : text[start + i] = part[i]

\* the place of a character in the collation: digits before letters, a
\* letter at the same place in either case
CollationRank(ch) ==
    CHOOSE k \in 1..(Len(Digits) + Len(LowerCaseLetters)) :
        (Digits \o LowerCaseLetters)[k] = LowerCaseOf(ch)

\* the comparison of the letters, whatever their case
RECURSIVE ComparePrimary(_, _, _)
ComparePrimary(a, b, i) ==
    IF i > Len(a) /\ i > Len(b) THEN 0
    ELSE IF i > Len(a) THEN -1
    ELSE IF i > Len(b) THEN 1
    ELSE IF CollationRank(a[i]) < CollationRank(b[i]) THEN -1
    ELSE IF CollationRank(a[i]) > CollationRank(b[i]) THEN 1
    ELSE ComparePrimary(a, b, i + 1)

\* the comparison of two strings of the same letters: lower case first
RECURSIVE CompareCase(_, _, _)
CompareCase(a, b, i) ==
    IF i > Len(a) THEN 0
    ELSE IF a[i] = b[i] THEN CompareCase(a, b, i + 1)
    ELSE IF IsUpperCase(b[i]) THEN -1
    ELSE 1

\* String.prototype.localeCompare on digits and unaccented letters
LocaleCompare(a, b) ==
    IF ComparePrimary(a, b, 1) # 0 THEN ComparePrimary(a, b, 1)
    ELSE CompareCase(a, b, 1)

\* the fields of a Student that hold strings
StringFields == {"student_id", "name", "class"}

\* useState of sortConfig and filterConfig
NoSortField == "null"
AllClasses == <<"a", "l", "l">>
NoFilters == [class |-> AllClasses, performanceLevel |-> "all", minScore |-> "", maxScore |-> ""]

\* getPerformanceLevel(score).level
GetPerformanceLevel(score) ==
    IF Le(Num(90), score) THEN "Excellent"
    ELSE IF Le(Num(80), score) THEN "Good"
    ELSE IF Le(Num(70), score) THEN "Average"
    ELSE IF Le(Num(60), score) THEN "Below Average"
    ELSE "Poor"

\* Number(text) of the text of a number input
ToNumber(text) ==
    IF text = "" THEN Num(0)
    ELSE IF \E t \in DecimalTexts : t[1] = text
    THEN Num((CHOOSE t \in DecimalTexts : t[1] = text)[2])
    ELSE NaN

\* a searchMatch that compares the characters as they are typed
SearchMatchCaseSensitive(student, term) ==
    \/ Len(term) = 0
    \/ Includes(student.name, term)
    \/ Includes(student.student_id, term)
    \/ Includes(student.class, term)

\* searchMatch of filteredAndSortedStudents
SearchMatch(student, term) ==
    \/ Len(term) = 0
    \/ Includes(StringToLowerCase(student.name), StringToLowerCase(term))
    \/ Includes(StringToLowerCase(student.student_id), StringToLowerCase(term))
    \/ Includes(StringToLowerCase(student.class), StringToLowerCase(term))

\* the predicate of students.filter in filteredAndSortedStudents
FilterMatch(student, term, filters) ==
    /\ SearchMatch(student, term)
    /\ (filters.class = AllClasses \/ student.class = filters.class)
    /\ (filters.performanceLevel = "all"
          \/ GetPerformanceLevel(student.assessment_score) = filters.performanceLevel)
    /\ (filters.minScore = "" \/ Le(ToNumber(filters.minScore), student.assessment_score))
    /\ (filters.maxScore = "" \/ Le(student.assessment_score, ToNumber(filters.maxScore)))

\* Array.prototype.filter
RECURSIVE FilterStudents(_, _, _, _)
FilterStudents(students, n, term, filters) ==
    IF n = 0 THEN <<>>
    ELSE FilterStudents(students, n - 1, term, filters)
            \o (IF FilterMatch(students[n], term, filters) THEN <<students[n]>> ELSE <<>>)

\* the comparator of filtered.sort, by its sign
SortComparison(a, b, config) ==
    LET comparison ==
            IF config.field \in StringFields
            THEN LocaleCompare(a[config.field], b[config.field])
            ELSE IF Lt(a[config.field], b[config.field]) THEN -1
            ELSE IF Lt(b[config.field], a[config.field]) THEN 1
            ELSE 0
    IN  IF config.direction = "desc" THEN -comparison ELSE comparison

\* Array.prototype.sort with that comparator: the sort is stable, so an
\* element goes behind the elements that compare before it and the equal
\* ones that stood before it
SortStudents(list, config) ==
    Only({ [p \in 1..Len(list) |-> list[CHOOSE i \in 1..Len(list) : place[i] = p]] :
             place \in {[i \in 1..Len(list) |->
                           1 + Cardinality({j \in 1..Len(list) :
                                 \/ SortComparison(list[j], list[i], config) < 0
                                 \/ /\ SortComparison(list[j], list[i], config) = 0
                                    /\ j < i})]} })

\* filteredAndSortedStudents
FilteredAndSortedStudents(students, term, config, filters) ==
    Only({ IF config.field # NoSortField THEN SortStudents(filtered, config) ELSE filtered :
             filtered \in {FilterStudents(students, Len(students), term, filters)} })

\* Math.ceil(filteredAndSortedStudents.length / pageSize)
TotalPages(students, term, config, filters, size) ==
    (Len(FilteredAndSortedStudents(students, term, config, filters)) + size - 1) \div size

\* filteredAndSortedStudents.slice(startIndex, startIndex + pageSize) with
\* startIndex = (currentPage - 1) * pageSize
PaginatedStudents(students, term, config, filters, page, size) ==
    Only({ SubSeq(shown, (page - 1) * size + 1,
                  IF page * size < Len(shown) THEN page * size ELSE Len(shown)) :
             shown \in {FilteredAndSortedStudents(students, term, config, filters)} })

---------------------------------------------------------------------------
(* Dashboard and the components it renders *)

\* clusterStudents(students, numClusters = 4)
DefaultNumClusters == 4

\* the loop of kmeans, from the locals s to its return
RECURSIVE KmeansReturn(_)
KmeansReturn(s) == IF s.pc = "done" THEN s ELSE KmeansReturn(KmeansIteration(s))

\* what reduce throws on an empty array when it is given no initial value
ReduceTypeError == "TypeError: Reduce of empty array with no initial value"

\* the first k summaries reduced with
\* (max, cluster) => cluster.characteristics.count > max.characteristics.count
\*                      ? cluster : max
RECURSIVE ReduceLargest(_, _)
ReduceLargest(cls, k) ==
    IF k = 1 THEN cls[1]
    ELSE Only({ IF Lt(max.characteristics.count, cls[k].characteristics.count)
                THEN cls[k] ELSE max :
                  max \in {ReduceLargest(cls, k - 1)} })

\* largestCluster of InsightsSection: clusters.reduce(...) with no initial value
LargestCluster(cls) ==
    IF Len(cls) = 0 THEN Threw(ReduceTypeError)
    ELSE Returned(ReduceLargest(cls, Len(cls)))

---------------------------------------------------------------------------
(* The caller's records after a call *)

\* train that scales engagement_time in the records themselves
InputAfterTrainScaled(students) ==
    [i \in 1..Len(students) |->
        [students[i] EXCEPT !.engagement_time = Div(@, Num(100))]]

\* the list passed to train, after the call: train reads the records through
\* students.map into new arrays and writes to none of them
InputAfterTrain(students) == students

\* the record passed to predict, after the call: predict reads its fields
InputAfterPredict(student) == student

\* the list passed to clusterStudents, after the call: students.map and
\* students.filter build new arrays, normalizeFeatures and kmeans work on the
\* feature rows and on copies of them (slice), and no record is written to
InputAfterClusterStudents(students) == students

\* the record passed to predictCluster, after the call
InputAfterPredictCluster(student) == student

---------------------------------------------------------------------------
(* Inputs of the regression model *)

\* the largest list of records passed to train
MaxTrainRecords == 6

\* Records train is called with.  Records 1..7 follow
\* assessment_score = 2*comprehension + 3*attention + 1; records 8 and 9
\* repeat the features of records 2 and 3 with another score, so that with
\* records 1, 4, 5, 6 they form a full-rank list with a constant score.
TrainPool ==
    << Student(0, 0, 0, 0, 0, 1),
       Student(1, 0, 0, 0, 0, 3),
       Student(0, 1, 0, 0, 0, 4),
       Student(0, 0, 1, 0, 0, 1),
       Student(0, 0, 0, 1, 0, 1),
       Student(0, 0, 0, 0, 100, 1),
       Student(1, 1, 0, 0, 0, 6),
       Student(1, 0, 0, 0, 0, 1),
       Student(0, 1, 0, 0, 0, 1) >>

\* the records of TrainPool whose index is in S, in the order of the pool
RECURSIVE PickFrom(_, _, _)
PickFrom(pool, S, i) ==
    IF i > Len(pool) THEN <<>>
    ELSE (IF i \in S THEN <<pool[i]>> ELSE <<>>) \o PickFrom(pool, S, i + 1)

TrainSets ==
    { PickFrom(TrainPool, S, 1) :
        S \in { T \in SUBSET (1..Len(TrainPool)) : Cardinality(T) <= MaxTrainRecords } }

\* Partial<Student> records predict is called with
PredictInputs ==
    { TrainPool[2],
      [comprehension |-> Num(50)],
      [attention |-> Num(0)],
      Student(100, 100, 100, 100, 300, 0) }

\* train's outcome on every list of TrainSets (evaluated once)
TrainTable == [students \in TrainSets |-> TrainOutcome(students)]

---------------------------------------------------------------------------
(* Inputs of the clusterer *)

\* the largest list of records passed to clusterStudents
MaxClusterRecords == 2

\* the largest number of clusterStudents calls on one clusterer
MaxClusterRuns == 1

\* Records clusterStudents is called with
ClusterPool ==
    << Student(10, 10, 10, 10, 60, 10),
       Student(90, 90, 90, 90, 180, 90),
       Student(10, 90, 10, 90, 120, 50) >>

\* whether every standard deviation of normalizeFeatures on these records is
\* a rational number
ExactStds(students) ==
    \/ Len(students) = 0
    \/ LET features == [r \in 1..Len(students) |-> ClusterFeatureRow(students[r])]
       IN  Only({ \A d \in 1..Len(features[1]) :
                     HasExactSqrt(Div(Sum([r \in 1..Len(features) |->
                                             Square(Sub(features[r][d], means[d]))]),
                                      Num(Len(features)))) :
                    means \in {Means(features)} })

\* the lists of at most MaxClusterRecords records of ClusterPool on which
\* Math.sqrt is exact
ClusterSets ==
    { students \in UNION { [1..n -> {ClusterPool[i] : i \in 1..Len(ClusterPool)}] :
                             n \in 0..MaxClusterRecords } : ExactStds(students) }

\* the values of numClusters: every number of personas, and one more
ClusterCounts == 1..(Len(Personas) + 1)

\* Partial<Student> records predictCluster is called with
PredictClusterInputs ==
    { ClusterPool[1], ClusterPool[2], [comprehension |-> Num(50)] }

\* the normalized features of every non-empty list of ClusterSets (evaluated once)
NormalizedTable ==
    [students \in ClusterSets \ {<<>>} |->
        NormalizeFeatures([r \in 1..Len(students) |-> ClusterFeatureRow(students[r])])]

---------------------------------------------------------------------------
(* Inputs of the metrics *)

\* the longest series passed to a metric
MaxSeriesLen == 3

\* the values of the series: 16 * 17 and 17 * 17 have more than MantissaBits
\* significant bits
SeriesValues == {Num(0), Num(1), Num(16), Num(17)}

\* the pairs of series of equal length
SeriesPairs ==
    UNION { [1..n -> SeriesValues] \X [1..n -> SeriesValues] : n \in 0..MaxSeriesLen }

---------------------------------------------------------------------------
(* Inputs of FileUpload *)

\* the largest number of processFile calls
MaxUploads == 2

Header == <<"student_id", "name", "class", "comprehension", "attention", "focus",
            "retention", "assessment_score", "engagement_time">>

\* Files dropped on or selected in FileUpload: a well-formed file; one with
\* text in numeric columns; one without the engagement_time column; one with
\* a header only; one that is not a .csv file; one whose text cannot be read
UploadFiles ==
    { [name |-> [stem |-> "students", ext |-> "csv"], readable |-> TRUE,
       lines |-> <<Header,
                   <<"S001", "\"Alice\"", "A", " 85 ", "90", "78", "88", "84", "120">>>>],
      [name |-> [stem |-> "grades", ext |-> "CSV"], readable |-> TRUE,
       lines |-> <<Header,
                   <<"S002", "Bob", "B", "abc", "90", "78", "", "84pts", "120">>>>],
      [name |-> [stem |-> "short", ext |-> "csv"], readable |-> TRUE,
       lines |-> <<SubSeq(Header, 1, 8),
                   <<"S003", "Cy", "A", "85", "90", "78", "88", "84">>>>],
      [name |-> [stem |-> "empty", ext |-> "csv"], readable |-> TRUE,
       lines |-> <<Header>>],
      [name |-> [stem |-> "notes", ext |-> "TXT"], readable |-> TRUE,
       lines |-> <<Header,
                   <<"S001", "Alice", "A", "85", "90", "78", "88", "84", "120">>>>],
      [name |-> [stem |-> "broken", ext |-> "csv"], readable |-> FALSE,
       lines |-> <<Header>>] }

---------------------------------------------------------------------------
(* Inputs of StudentTable *)

\* the largest number of debouncedSearch timers pending at once
MaxPendingResets == 1

TableStudent(id, name, class, score, comprehension) ==
    [student_id |-> id, name |-> name, class |-> class,
     comprehension |-> Num(comprehension), attention |-> Num(50), focus |-> Num(50),
     retention |-> Num(50), assessment_score |-> Num(score), engagement_time |-> Num(120)]

\* the students prop of StudentTable
TableStudents ==
    << TableStudent(<<"s", "1">>, <<"A", "n", "n">>, <<"A">>, 95, 70),
       TableStudent(<<"s", "2">>, <<"b", "o", "b">>, <<"B">>, 85, 90),
       TableStudent(<<"S", "3">>, <<"A", "l">>, <<"B">>, 85, 60),
       TableStudent(<<"s", "4">>, <<"B", "e", "a">>, <<"A">>, 72, 80),
       TableStudent(<<"s", "1", "0">>, <<"a", "n", "n">>, <<"B">>, 55, 75),
       TableStudent(<<"s", "6">>, <<"C", "y">>, <<"A">>, 90, 65) >>

\* the texts typed into the search box
SearchTerms == {<<>>, <<"a">>, <<"A", "N">>, <<"S", "1">>, <<"z">>}

\* the options and texts of the filter controls
ClassOptions == {AllClasses} \cup {TableStudents[i].class : i \in 1..Len(TableStudents)}
LevelOptions == {"all", "Excellent", "Good", "Poor"}
ScoreTexts == {"", "85"}

\* the columns whose header is clicked
SortFields == {"name", "student_id", "assessment_score"}

\* the options of the page size select
PageSizes == {10, 25, 50, 100}

\* the number of students of the students prop of a table with pages
MaxPagedStudents == 11

\* a students prop with more students than the smallest page holds: all of
\* class A but the last one
PagedStudents ==
    [i \in 1..MaxPagedStudents |->
        TableStudent(<<"s", LowerCaseLetters[i]>>, <<"n", LowerCaseLetters[i]>>,
                     IF i < MaxPagedStudents THEN <<"A">> ELSE <<"B">>, 60 + i, 50)]

\* the texts typed into the search box of that table
PagedSearchTerms == {<<>>, <<"s", "b">>}

---------------------------------------------------------------------------
(* State machine of the engine objects *)

NoCall == [op |-> "none", arg |-> <<>>]
NoReturn == [status |-> "none", error |-> "", value |-> <<>>]
Pending == [status |-> "pending", error |-> "", value |-> <<>>]

Init ==
    /\ coefficients = <<>>
    /\ intercept = Num(0)
    /\ isTrained = FALSE
    /\ clusters = <<>>
    /\ centroids = <<>>
    /\ clustererIsTrained = FALSE
    /\ km = [pc |-> "idle"]
    /\ runs = 0
    /\ call = NoCall
    /\ ret = NoReturn
    /\ records = <<>>
    /\ isDragOver = FALSE
    /\ isProcessing = FALSE
    /\ uploadStatus = "idle"
    /\ fileName = NoName
    /\ uploaded = <<>>
    /\ reading = {}
    /\ callbacks = <<>>
    /\ searchTerm = <<>>
    /\ sortConfig = [field |-> NoSortField, direction |-> "asc"]
    /\ filterConfig = NoFilters
    /\ showFilters = FALSE
    /\ currentPage = 1
    /\ pageSize = 25
    /\ pendingResets = 0
    /\ dashboardStudents = <<>>
    /\ isLoading = TRUE
    /\ pendingEffect = FALSE
    /\ renders = 0
    /\ now = 0
    /\ timeoutId = 0
    /\ timers = {}
    /\ debounced = <<>>
    /\ invoked = <<>>

\* train that clears the model when the fit throws
TrainResetOnFailure(students) ==
    LET result == TrainTable[students]
    IN  /\ call' = [op |-> "train", arg |-> students]
        /\ IF result.status = "threw"
           THEN /\ ret' = result
                /\ coefficients' = <<>>
                /\ intercept' = Num(0)
                /\ isTrained' = FALSE
           ELSE /\ coefficients' = result.value.coefficients
                /\ intercept' = result.value.intercept
                /\ isTrained' = TRUE
                /\ ret' = Returned(<<>>)
        /\ records' = InputAfterTrain(students)
        /\ UNCHANGED <<uiVars, clustererVars>>

\* mlModel.train(students)
Train(students) ==
    LET result == TrainTable[students]
    IN  /\ call' = [op |-> "train", arg |-> students]
        /\ IF result.status = "threw"
           THEN /\ ret' = result
                /\ UNCHANGED <<coefficients, intercept, isTrained>>
           ELSE /\ coefficients' = result.value.coefficients
                /\ intercept' = result.value.intercept
                /\ isTrained' = TRUE
                /\ ret' = Returned(<<>>)
        /\ records' = InputAfterTrain(students)
        /\ UNCHANGED <<uiVars, clustererVars>>

\* mlModel.predict(student)
Predict(student) ==
    /\ call' = [op |-> "predict", arg |-> student]
    /\ ret' = PredictOutcome(coefficients, intercept, isTrained, student)
    /\ records' = <<InputAfterPredict(student)>>
    /\ UNCHANGED <<uiVars, regressionVars, clustererVars>>

\* mlModel.getModelSummary()
GetModelSummary ==
    /\ call' = [op |-> "getModelSummary", arg |-> <<>>]
    /\ ret' = ModelSummary(coefficients, intercept, isTrained)
    /\ UNCHANGED <<uiVars, regressionVars, clustererVars, records>>

\* modelPerformance of InsightsSection, on the students the model was just
\* trained on
ModelPerformance ==
    /\ call.op = "train"
    /\ call' = [op |-> "modelPerformance", arg |-> call.arg]
    /\ ret' = ModelPerformanceOutcome(coefficients, intercept, isTrained, call.arg)
    /\ UNCHANGED <<uiVars, regressionVars, clustererVars, records>>

RegressionNext ==
    \/ \E students \in TrainSets : Train(students)
    \/ \E student \in PredictInputs : Predict(student)
    \/ GetModelSummary
    \/ ModelPerformance

RegressionSpec == Init /\ [][RegressionNext]_vars

\* calculateCorrelation(x, y).  The metrics keep no state, so a behaviour
\* applies one metric to one pair of series.
Correlation(x, y) ==
    /\ call = NoCall
    /\ call' = [op |-> "calculateCorrelation", arg |-> <<x, y>>]
    /\ ret' = Returned(CalculateCorrelation(x, y))
    /\ UNCHANGED <<uiVars, regressionVars, clustererVars, records>>

\* calculateR2Score(actual, predicted)
R2Score(actual, predicted) ==
    /\ call = NoCall
    /\ call' = [op |-> "calculateR2Score", arg |-> <<actual, predicted>>]
    /\ ret' = Returned(CalculateR2Score(actual, predicted))
    /\ UNCHANGED <<uiVars, regressionVars, clustererVars, records>>

\* calculateMSE(actual, predicted)
MSE(actual, predicted) ==
    /\ call = NoCall
    /\ call' = [op |-> "calculateMSE", arg |-> <<actual, predicted>>]
    /\ ret' = Returned(CalculateMSE(actual, predicted))
    /\ UNCHANGED <<uiVars, regressionVars, clustererVars, records>>

MetricsNext ==
    \/ \E pair \in SeriesPairs : Correlation(pair[1], pair[2])
    \/ \E pair \in SeriesPairs : R2Score(pair[1], pair[2])
    \/ \E pair \in SeriesPairs : MSE(pair[1], pair[2])

MetricsSpec == Init /\ [][MetricsNext]_vars

\* clusterer.clusterStudents(students, numClusters), up to the loop of kmeans:
\* normalizeFeatures reads features[0].length, which throws on an empty list
ClusterStart(students, numClusters) ==
    /\ km.pc = "idle"
    /\ runs < MaxClusterRuns
    /\ runs' = runs + 1
    /\ call' = [op |-> "clusterStudents",
                arg |-> [students |-> students, numClusters |-> numClusters]]
    /\ IF Len(students) = 0
       THEN /\ ret' = Threw(TypeError)
            /\ km' = km
       ELSE /\ ret' = Pending
            /\ \E picks \in [1..numClusters -> 0..(Len(students) - 1)] :
                  km' = KmeansStart(NormalizedTable[students], numClusters, picks)
    /\ records' = InputAfterClusterStudents(students)
    /\ UNCHANGED <<uiVars, regressionVars, clusters, centroids, clustererIsTrained>>

\* one round of the loop of kmeans
KmeansLoop ==
    /\ km.pc = "loop"
    /\ km' = KmeansIteration(km)
    /\ UNCHANGED <<uiVars, regressionVars, clusters, centroids, clustererIsTrained, runs, call, ret, records>>

\* clusterStudents from the return of kmeans on: km keeps the labels and
\* centroids kmeans returned
ClusterFinish ==
    /\ km.pc = "done"
    /\ centroids' = km.centroids
    /\ clustererIsTrained' = TRUE
    /\ LET out == ClusterSummaries(call.arg.students, km.labels, km.centroids)
       IN  /\ ret' = out
           /\ clusters' = IF out.status = "threw" THEN clusters ELSE out.value
    /\ km' = [km EXCEPT !.pc = "idle"]
    /\ UNCHANGED <<uiVars, regressionVars, runs, call, records>>

\* clusterer.predictCluster(student)
PredictCluster(student) ==
    /\ km.pc = "idle"
    /\ call' = [op |-> "predictCluster", arg |-> student]
    /\ ret' = PredictClusterOutcome(clusters, centroids, clustererIsTrained, student)
    /\ records' = <<InputAfterPredictCluster(student)>>
    /\ UNCHANGED <<uiVars, regressionVars, clustererVars>>

\* clusterer.getClusters()
GetClusters ==
    /\ km.pc = "idle"
    /\ call' = [op |-> "getClusters", arg |-> <<>>]
    /\ ret' = Returned(clusters)
    /\ UNCHANGED <<uiVars, regressionVars, clustererVars, records>>

ClusterNext ==
    \/ \E students \in ClusterSets, numClusters \in ClusterCounts :
          ClusterStart(students, numClusters)
    \/ KmeansLoop
    \/ ClusterFinish
    \/ \E student \in PredictClusterInputs : PredictCluster(student)
    \/ GetClusters

ClusterSpec == Init /\ [][ClusterNext]_vars

\* the calls of clusterStudents alone
ClusterRunNext ==
    \/ \E students \in ClusterSets, numClusters \in ClusterCounts :
          ClusterStart(students, numClusters)
    \/ KmeansLoop
    \/ ClusterFinish

\* kmeans is a synchronous loop: once entered, its rounds go on until it
\* returns.  This is weak fairness of KmeansLoop, WF_vars(KmeansLoop), written
\* out as []<>~ENABLED <<KmeansLoop>>_vars \/ []<><<KmeansLoop>>_vars with the
\* enabling condition of the action in place of ENABLED: a round is enabled
\* exactly while km.pc = "loop", because every round changes km (it either
\* returns or counts an iteration).
ClusterLiveSpec ==
    /\ Init
    /\ [][ClusterRunNext]_vars
    /\ ([]<>(km.pc # "loop") \/ []<><<KmeansLoop>>_vars)

\* the longest list passed to train by a caller that uses both objects
MaxEngineTrainRecords == 1

\* the number of clusters asked for by a caller that uses both objects
EngineClusterCounts == {2}

\* A caller that uses the regression model and the clusterer together, as
\* Dashboard does.  A call runs to completion before the next one starts.
EngineNext ==
    \/ /\ km.pc = "idle"
       /\ \E students \in {t \in TrainSets : Len(t) <= MaxEngineTrainRecords} :
             Train(students)
    \/ /\ km.pc = "idle"
       /\ \E student \in PredictInputs : Predict(student)
    \/ \E students \in ClusterSets, numClusters \in EngineClusterCounts :
          ClusterStart(students, numClusters)
    \/ KmeansLoop
    \/ ClusterFinish
    \/ \E student \in PredictClusterInputs : PredictCluster(student)

EngineSpec == Init /\ [][EngineNext]_vars

---------------------------------------------------------------------------
(* State machine of FileUpload *)

\* processFile(file) up to await file.text(): call number id.  onError is a
\* prop of FileUpload: it returns or throws, and when it throws the
\* statements after it are not executed.
ProcessFile(file) ==
    LET id == Len(uploaded) + 1
    IN  /\ Len(uploaded) < MaxUploads
        /\ uploaded' = Append(uploaded, file)
        /\ IF ~EndsWithCsv(file.name)
           THEN /\ \E errorThrows \in BOOLEAN :
                      /\ callbacks' = Append(callbacks, OnError(id, NotCsvMessage, errorThrows))
                      /\ uploadStatus' = IF errorThrows THEN uploadStatus ELSE "error"
                /\ UNCHANGED <<isProcessing, fileName, reading>>
           ELSE /\ isProcessing' = TRUE
                /\ fileName' = file.name
                /\ reading' = reading \cup {[id |-> id, file |-> file]}
                /\ UNCHANGED <<callbacks, uploadStatus>>

\* handleFileSelect(event) with a file chosen: the input is disabled while
\* isProcessing
HandleFileSelect(file) ==
    /\ ~isProcessing
    /\ ProcessFile(file)
    /\ UNCHANGED <<notUploadVars, isDragOver>>

\* handleDrop(event) with a file dropped
HandleDrop(file) ==
    /\ isDragOver' = FALSE
    /\ ProcessFile(file)
    /\ UNCHANGED notUploadVars

\* handleDragOver(event)
HandleDragOver ==
    /\ isDragOver' = TRUE
    /\ UNCHANGED <<notUploadVars, isProcessing, uploadStatus, fileName, uploaded, reading, callbacks>>

\* handleDragLeave(event)
HandleDragLeave ==
    /\ isDragOver' = FALSE
    /\ UNCHANGED <<notUploadVars, isProcessing, uploadStatus, fileName, uploaded, reading, callbacks>>

\* processFile from the settling of file.text() to its end.  onDataLoad is
\* called inside the try block, so when it throws the catch block calls
\* onError with the message of what was thrown; when onError throws,
\* setUploadStatus('error') is not executed; the finally block is.
ProcessFileResume(c) ==
    /\ c \in reading
    /\ reading' = reading \ {c}
    /\ \E dataLoadThrows \in BOOLEAN, errorThrows \in BOOLEAN :
        LET out == ProcessText(c.file)
            caught == IF out.ok THEN CallbackFailureMessage ELSE out.message
        IN  IF out.ok /\ ~dataLoadThrows
            THEN /\ callbacks' = Append(callbacks, OnDataLoad(c.id, out.students, FALSE))
                 /\ uploadStatus' = "success"
            ELSE /\ callbacks' =
                       (IF out.ok THEN Append(callbacks, OnDataLoad(c.id, out.students, TRUE))
                        ELSE callbacks)
                          \o <<OnError(c.id, caught, errorThrows)>>
                 /\ uploadStatus' = IF errorThrows THEN uploadStatus ELSE "error"
    /\ isProcessing' = FALSE
    /\ UNCHANGED <<notUploadVars, isDragOver, fileName, uploaded>>

\* resetUpload(): its buttons are rendered when isProcessing is false and
\* uploadStatus is 'success' or 'error'
ResetUpload ==
    /\ ~isProcessing
    /\ uploadStatus \in {"success", "error"}
    /\ uploadStatus' = "idle"
    /\ fileName' = NoName
    /\ UNCHANGED <<notUploadVars, isDragOver, isProcessing, uploaded, reading, callbacks>>

UploadNext ==
    \/ \E file \in UploadFiles : HandleFileSelect(file)
    \/ \E file \in UploadFiles : HandleDrop(file)
    \/ HandleDragOver
    \/ HandleDragLeave
    \/ \E c \in reading : ProcessFileResume(c)
    \/ ResetUpload

UploadSpec == Init /\ [][UploadNext]_vars

---------------------------------------------------------------------------
(* State machine of StudentTable *)

\* onChange of the search box: setSearchTerm, and debouncedSearch of this
\* render starts a timer
SearchChange(term) ==
    /\ pendingResets < MaxPendingResets
    /\ searchTerm' = term
    /\ pendingResets' = pendingResets + 1
    /\ UNCHANGED <<notTableVars, sortConfig, filterConfig, showFilters,
                 currentPage, pageSize>>

\* a timer of debouncedSearch fires: setCurrentPage(1)
DebouncedSearchFires ==
    /\ pendingResets > 0
    /\ pendingResets' = pendingResets - 1
    /\ currentPage' = 1
    /\ UNCHANGED <<notTableVars, searchTerm, sortConfig, filterConfig,
                 showFilters, pageSize>>

\* onClick of the Filters button
ToggleFilters ==
    /\ showFilters' = ~showFilters
    /\ UNCHANGED <<notTableVars, searchTerm, sortConfig, filterConfig,
                 currentPage, pendingResets, pageSize>>

\* onChange of a control of the filter panel, which is rendered when
\* showFilters is set
SetFilter(key, value) ==
    /\ showFilters
    /\ filterConfig' = [filterConfig EXCEPT ![key] = value]
    /\ UNCHANGED <<notTableVars, searchTerm, sortConfig, showFilters,
                 currentPage, pendingResets, pageSize>>

\* onClick of Clear Filters
ClearFilters ==
    /\ showFilters
    /\ filterConfig' = NoFilters
    /\ UNCHANGED <<notTableVars, searchTerm, sortConfig, showFilters,
                 currentPage, pendingResets, pageSize>>

\* handleSort(field)
HandleSort(field) ==
    /\ sortConfig' = [field |-> field,
                      direction |-> IF sortConfig.field = field /\ sortConfig.direction = "asc"
                                    THEN "desc" ELSE "asc"]
    /\ UNCHANGED <<notTableVars, searchTerm, filterConfig, showFilters,
                 currentPage, pendingResets, pageSize>>

TableNext ==
    \/ \E term \in SearchTerms : SearchChange(term)
    \/ DebouncedSearchFires
    \/ ToggleFilters
    \/ \E c \in ClassOptions : SetFilter("class", c)
    \/ \E level \in LevelOptions : SetFilter("performanceLevel", level)
    \/ \E text \in ScoreTexts : SetFilter("minScore", text)
    \/ \E text \in ScoreTexts : SetFilter("maxScore", text)
    \/ ClearFilters
    \/ \E field \in SortFields : HandleSort(field)

TableSpec == Init /\ [][TableNext]_vars

\* onChange of the page size select
SetPageSize(size) ==
    /\ pageSize' = size
    /\ currentPage' = 1
    /\ UNCHANGED <<notTableVars, searchTerm, sortConfig, filterConfig, showFilters,
                   pendingResets>>

\* onClick of Previous, rendered when totalPages > 1 and disabled on page 1
PreviousPage(students) ==
    /\ currentPage # 1
    /\ TotalPages(students, searchTerm, sortConfig, filterConfig, pageSize) > 1
    /\ currentPage' = IF currentPage - 1 > 1 THEN currentPage - 1 ELSE 1
    /\ UNCHANGED <<notTableVars, searchTerm, sortConfig, filterConfig, showFilters,
                   pageSize, pendingResets>>

\* onClick of Next, rendered when totalPages > 1 and disabled on the last page
NextPage(students) ==
    \E totalPages \in {TotalPages(students, searchTerm, sortConfig, filterConfig,
                                  pageSize)} :
        /\ totalPages > 1
        /\ currentPage # totalPages
        /\ currentPage' = IF currentPage + 1 < totalPages THEN currentPage + 1
                          ELSE totalPages
        /\ UNCHANGED <<notTableVars, searchTerm, sortConfig, filterConfig, showFilters,
                       pageSize, pendingResets>>

\* onClick of the button of a page: the first Math.min(5, totalPages) pages
\* have one
GoToPage(students) ==
    \E totalPages \in {TotalPages(students, searchTerm, sortConfig, filterConfig,
                                  pageSize)} :
        /\ totalPages > 1
        /\ \E page \in 1..(IF totalPages < 5 THEN totalPages ELSE 5) : currentPage' = page
        /\ UNCHANGED <<notTableVars, searchTerm, sortConfig, filterConfig, showFilters,
                       pageSize, pendingResets>>

\* StudentTable with its pagination controls, on the students prop
\* PagedStudents.  The button of the last page is rendered when
\* totalPages > 5, which takes more than 50 students: it is never rendered
\* here.
PagedTableNext ==
    \/ \E term \in PagedSearchTerms : SearchChange(term)
    \/ DebouncedSearchFires
    \/ ToggleFilters
    \/ \E c \in {AllClasses} \cup {PagedStudents[i].class : i \in 1..Len(PagedStudents)} :
          SetFilter("class", c)
    \/ ClearFilters
    \/ \E field \in {"name"} : HandleSort(field)
    \/ \E size \in PageSizes : SetPageSize(size)
    \/ PreviousPage(PagedStudents)
    \/ NextPage(PagedStudents)
    \/ GoToPage(PagedStudents)

PagedTableSpec == Init /\ [][PagedTableNext]_vars

---------------------------------------------------------------------------
(* State machine of Dashboard *)

\* the largest number of students lists Dashboard is rendered with
MaxDashboardRenders == 1

\* Dashboard is rendered with a students list it has not seen: React schedules
\* the effect that depends on [students, mlModel, clusterer].  isLoading keeps
\* its value (true on the first render).  selectedClass stays 'all', so the
\* components get filteredStudents = students.
RenderDashboard(students) ==
    /\ renders < MaxDashboardRenders
    /\ ~pendingEffect
    /\ renders > 0 => students # dashboardStudents
    /\ dashboardStudents' = students
    /\ pendingEffect' = TRUE
    /\ renders' = renders + 1
    /\ UNCHANGED <<engineVars, uploadVars, tableVars, debounceVars, isLoading>>

\* initializeModels, from setIsLoading(true) to the setIsLoading(false) of the
\* try block or of the catch block; the function awaits nothing, so React
\* renders only after it
InitializeModels ==
    /\ pendingEffect
    /\ pendingEffect' = FALSE
    /\ isLoading' = FALSE
    /\ \A trained \in {TrainOutcome(dashboardStudents)} :
          IF trained.status = "threw"
          THEN /\ call' = [op |-> "train", arg |-> dashboardStudents]
               /\ ret' = trained
               /\ records' = InputAfterTrain(dashboardStudents)
               /\ UNCHANGED <<regressionVars, clustererVars>>
          ELSE /\ coefficients' = trained.value.coefficients
               /\ intercept' = trained.value.intercept
               /\ isTrained' = TRUE
               /\ call' = [op |-> "clusterStudents",
                           arg |-> [students |-> dashboardStudents,
                                    numClusters |-> DefaultNumClusters]]
               /\ records' = InputAfterClusterStudents(dashboardStudents)
               /\ runs' = runs + 1
               /\ \E picks \in [1..DefaultNumClusters ->
                                   0..(Len(dashboardStudents) - 1)] :
                     \A returned \in {KmeansReturn(KmeansStart(
                                          NormalizedTable[dashboardStudents],
                                          DefaultNumClusters, picks))} :
                        \A out \in {ClusterSummaries(dashboardStudents, returned.labels,
                                                     returned.centroids)} :
                           /\ centroids' = returned.centroids
                           /\ clustererIsTrained' = TRUE
                           /\ km' = [returned EXCEPT !.pc = "idle"]
                           /\ ret' = out
                           /\ clusters' = out.value
    /\ UNCHANGED <<uploadVars, tableVars, debounceVars, dashboardStudents, renders>>

\* Charts or StudentTable shows the prediction for a selected student
ShowPrediction ==
    /\ ~isLoading
    /\ \E i \in 1..Len(dashboardStudents) : Predict(dashboardStudents[i])

\* Charts or StudentTable shows the persona of a selected student
ShowPersona ==
    /\ ~isLoading
    /\ \E i \in 1..Len(dashboardStudents) : PredictCluster(dashboardStudents[i])

\* Charts reads the clusters for its cluster chart
ShowClusters ==
    /\ ~isLoading
    /\ GetClusters

\* insights of InsightsSection: clusterer.getClusters() and the reduce over it
InsightsPersonas ==
    /\ ~isLoading
    /\ call' = [op |-> "largestCluster", arg |-> <<>>]
    /\ ret' = LargestCluster(clusters)
    /\ UNCHANGED <<uiVars, regressionVars, clustererVars, records>>

\* modelPerformance of InsightsSection
InsightsModelPerformance ==
    /\ ~isLoading
    /\ call' = [op |-> "modelPerformance", arg |-> dashboardStudents]
    /\ ret' = ModelPerformanceOutcome(coefficients, intercept, isTrained,
                                      dashboardStudents)
    /\ UNCHANGED <<uiVars, regressionVars, clustererVars, records>>

DashboardNext ==
    \/ \E students \in ClusterSets : RenderDashboard(students)
    \/ InitializeModels
    \/ ShowPrediction
    \/ ShowPersona
    \/ ShowClusters
    \/ InsightsPersonas
    \/ InsightsModelPerformance

DashboardSpec == Init /\ [][DashboardNext]_vars

---------------------------------------------------------------------------
(* State machine of debounce *)

\* the delay passed to debounce, in units of the clock
DebounceDelay == 2

\* the time at which the clock of the model stops
MaxTime == 5

\* the largest number of calls of the function debounce returned
MaxDebouncedCalls == 3

\* the arguments of those calls
DebouncedArgs == {"a", "b"}

\* a call of the function debounce returned that does not clear the timer
\* of the call before it
DebouncedCallNoClear(arg) ==
    /\ Len(debounced) < MaxDebouncedCalls
    /\ timers' = timers \cup {[id |-> Len(debounced) + 1, due |-> now + DebounceDelay,
                                arg |-> arg]}
    /\ timeoutId' = Len(debounced) + 1
    /\ debounced' = Append(debounced, [time |-> now, arg |-> arg])
    /\ UNCHANGED <<engineVars, uploadVars, tableVars, dashboardVars, now, invoked>>

\* a call of the function debounce returned: clearTimeout(timeoutId), then
\* timeoutId = setTimeout(() => func(...args), delay).  The id of a timer is
\* the number of the call that set it.
DebouncedCall(arg) ==
    /\ Len(debounced) < MaxDebouncedCalls
    /\ timers' = {t \in timers : t.id # timeoutId}
                    \cup {[id |-> Len(debounced) + 1, due |-> now + DebounceDelay,
                           arg |-> arg]}
    /\ timeoutId' = Len(debounced) + 1
    /\ debounced' = Append(debounced, [time |-> now, arg |-> arg])
    /\ UNCHANGED <<engineVars, uploadVars, tableVars, dashboardVars, now, invoked>>

\* the callback of a timer runs: func(...args).  A timer runs when its
\* delay has passed and the thread is free, so at its due time or later.
TimerFires(t) ==
    /\ t \in timers
    /\ t.due <= now
    /\ timers' = timers \ {t}
    /\ invoked' = Append(invoked, [time |-> now, arg |-> t.arg, calls |-> Len(debounced)])
    /\ UNCHANGED <<engineVars, uploadVars, tableVars, dashboardVars, now, timeoutId,
                   debounced>>

\* the clock advances
Tick ==
    /\ now < MaxTime
    /\ now' = now + 1
    /\ UNCHANGED <<engineVars, uploadVars, tableVars, dashboardVars, timeoutId, timers,
                   debounced, invoked>>

DebounceNext ==
    \/ \E arg \in DebouncedArgs : DebouncedCall(arg)
    \/ \E t \in timers : TimerFires(t)
    \/ Tick

DebounceSpec == Init /\ [][DebounceNext]_vars

---------------------------------------------------------------------------
(* Claims about the regression model *)

\* the failures the specification names
EmptyDatasetError == "EmptyDatasetError"
SingularMatrixError == "SingularMatrixError"

\* C1: predict on a model on which train has never succeeded fails with the
\* not-trained error and returns no prediction, for every input record.
C1_PredictBeforeTrainFails ==
    (call.op = "predict" /\ ~isTrained) =>
        /\ ret.status = "threw"
        /\ ret.error = NotTrainedError
        /\ ret.value = <<>>

C1_Witness ==
    /\ call.op = "predict"
    /\ ~isTrained
    /\ ret.status = "threw"
    /\ "assessment_score" \in DOMAIN call.arg

\* C2: train with an empty list of records fails with an EmptyDatasetError,
\* a dedicated empty-dataset failure and not some other error, and the model
\* is not marked trained by that call.
C2_TrainEmptyIsEmptyDatasetError ==
    (call.op = "train" /\ Len(call.arg) = 0) =>
        /\ ret.status = "threw"
        /\ ret.error = EmptyDatasetError

\* whether the elimination of matrixInverse meets a zero pivot from column i on
RECURSIVE ZeroPivotFrom(_, _)
ZeroPivotFrom(augmented, i) ==
    IF i > Len(augmented) THEN FALSE
    ELSE \/ IsZero(augmented[FindMaxRow(augmented, i, i + 1, i)][i])
         \/ Only({ ZeroPivotFrom(next, i + 1) : next \in {GaussStep(augmented, i)} })

\* whether X^T * X of the design of these records is singular
SingularDesign(students) ==
    LET XWithIntercept == [r \in 1..Len(students) |-> <<Num(1)>> \o FeatureRow(students[r])]
    IN  ZeroPivotFrom(MatrixMultiply(Transpose(XWithIntercept), XWithIntercept), 1)

\* C4: when the matrix to invert is singular (a pivot is zero after partial
\* pivoting), matrix inversion fails with a SingularMatrixError that train
\* propagates; train never completes with coefficients obtained by dividing
\* by a zero pivot.
C4_SingularMatrixFails ==
    (call.op = "train" /\ Len(call.arg) > 0 /\ SingularDesign(call.arg)) =>
        /\ ret.status = "threw"
        /\ ret.error = SingularMatrixError

InRange(lo, x, hi) == Le(lo, x) /\ Le(x, hi)

\* C5: for every trained model and every input record, predict returns
\* predicted_score within [0,100] and confidence within [0.6,0.95].
C5_PredictionBounds ==
    (call.op = "predict" /\ ret.status = "returned") =>
        /\ InRange(Num(0), ret.value.predicted_score, Num(100))
        /\ InRange(Frac(6, 10), ret.value.confidence, Frac(95, 100))

C7_UntrainedReadsFail ==
    ~isTrained =>
        /\ coefficients = <<>>
        /\ call.op \in {"predict", "getModelSummary"} => ret.status = "threw"

\* the model holds the least-squares fit of these records: its intercept
\* and coefficients are finite and solve the normal equations
\* (X^T * X) * b = X^T * y, unless the design is singular
HoldsFitOf(students) ==
    LET XWithIntercept == [r \in 1..Len(students) |-> <<Num(1)>> \o FeatureRow(students[r])]
        y == [r \in 1..Len(students) |-> students[r].assessment_score]
        XTranspose == Transpose(XWithIntercept)
        b == <<intercept>> \o coefficients
    IN  /\ Len(coefficients) = Len(FeatureNames)
        /\ IF \A f \in 1..Len(b) : IsFinite(b[f])
           THEN VectorMultiply(MatrixMultiply(XTranspose, XWithIntercept), b)
                    = VectorMultiply(XTranspose, y)
           ELSE SingularDesign(students)

\* C8: the trained flag only moves from untrained to trained: no train
\* (successful or failing), predict or getModelSummary call returns the
\* model to untrained, and a successful train replaces coefficients and
\* intercept with the new fit.
C8_TrainedIsOneWay ==
    /\ [][isTrained => isTrained']_vars
    /\ []((call.op = "train" /\ ret.status = "returned") =>
            (isTrained /\ HoldsFitOf(call.arg)))

\* a trained model was trained again, on records with another fit
C8_Witness ==
    /\ call.op = "train"
    /\ ret.status = "returned"
    /\ isTrained
    /\ Len(call.arg) = MaxTrainRecords
    /\ coefficients = <<Num(2), Num(3), Num(0), Num(0), Num(0)>>
    /\ intercept = Num(1)

---------------------------------------------------------------------------
(* Claims about the clusterer *)

\* C3: clusterStudents(records, k) with fewer than k records (including
\* 1 <= records.length < k) fails with an EmptyDatasetError and returns no
\* cluster summaries.  (Stated for the lists that are not empty.)
C3_TooFewRecordsFails ==
    (/\ call.op = "clusterStudents"
     /\ 1 <= Len(call.arg.students)
     /\ Len(call.arg.students) < call.arg.numClusters
     /\ ret.status # "pending") =>
        /\ ret.status = "threw"
        /\ ret.error = EmptyDatasetError

\* C9: predictCluster on a clusterer on which clusterStudents has never run
\* returns null for every input record, without raising an error.
C9_PredictClusterUntrainedIsNull ==
    (call.op = "predictCluster" /\ runs = 0) =>
        /\ ret.status = "returned"
        /\ ret.value = Null

C9_Witness ==
    /\ call.op = "predictCluster"
    /\ runs = 0
    /\ ~clustererIsTrained
    /\ ret = Returned(Null)
    /\ "assessment_score" \in DOMAIN call.arg

\* C10: when kmeans stops because the assignment vector did not change, every
\* point's distance to the returned centroid of its returned label is less
\* than or equal to its distance to every other returned centroid, in
\* normalized space.
C10_ConvergedIsNearest ==
    (km.pc = "done" /\ km.stop = "converged") =>
        \A r \in 1..Len(km.data) : \A c \in 1..Len(km.centroids) :
            Le(EuclideanDistance(km.data[r], km.centroids[km.labels[r] + 1]).sqrtOf,
               EuclideanDistance(km.data[r], km.centroids[c]).sqrtOf)

\* kmeans converged after it moved the centroids, on points that differ, with
\* a point in a cluster other than the first
C10_Witness ==
    /\ km.pc = "done"
    /\ km.stop = "converged"
    /\ km.iter > 0
    /\ \E r \in 1..Len(km.data) : km.labels[r] > 0
    /\ \E r \in 1..Len(km.data) : km.data[r] # km.data[1]

\* the mean of a centroid's coordinates
CentroidMean(centroid) == Div(Sum(centroid), Num(Len(centroid)))

\* C11: in the result of clusterStudents the personas follow the descending
\* order of the centroids' means over their four coordinates, so the cluster
\* of the highest mean is "High Achievers", whichever cluster id it has.
C11_PersonasFollowCentroidMeans ==
    (call.op = "clusterStudents" /\ ret.status = "returned") =>
        /\ Len(ret.value) = Len(centroids)
        /\ \A c \in 1..Len(centroids) :
              \E p \in 1..Len(ret.value) : ret.value[p].cluster_id = c - 1
        /\ ret.value[1].persona = "High Achievers"
        /\ \A p \in 1..Len(ret.value) :
              /\ ret.value[p].persona = Personas[p].name
              /\ \A q \in (p + 1)..Len(ret.value) :
                    Le(CentroidMean(centroids[ret.value[q].cluster_id + 1]),
                       CentroidMean(centroids[ret.value[p].cluster_id + 1]))

\* a result whose top persona went to a cluster other than cluster 0, with a
\* mean strictly above that of the next cluster
C11_Witness ==
    /\ call.op = "clusterStudents"
    /\ ret.status = "returned"
    /\ Len(ret.value) >= 2
    /\ ret.value[1].cluster_id # 0
    /\ ret.value[1].persona = "High Achievers"
    /\ Lt(CentroidMean(centroids[ret.value[2].cluster_id + 1]),
          CentroidMean(centroids[ret.value[1].cluster_id + 1]))

\* whether the four reported centroid features of a summary are within 5 of v
FeaturesNear(summary, v) ==
    \A f \in {"comprehension", "attention", "focus", "retention"} :
        Le(MathAbs(Sub(summary.characteristics[f], Num(v))), Num(5))

\* C12: clustering the two records {features 10, score 10} and {features 90,
\* score 90} with k = 2 gives, for every choice of initial centroids, two
\* clusters of one member each, with reported centroid features within 5 of
\* 10 and within 5 of 90.
C12_TwoRecordsTwoSingletons ==
    (/\ call.op = "clusterStudents"
     /\ call.arg.students = <<ClusterPool[1], ClusterPool[2]>>
     /\ call.arg.numClusters = 2
     /\ ret.status # "pending") =>
        /\ ret.status = "returned"
        /\ Len(ret.value) = 2
        /\ \A p \in 1..Len(ret.value) : ret.value[p].characteristics.count = Num(1)
        /\ \E p \in 1..Len(ret.value) : FeaturesNear(ret.value[p], 10)
        /\ \E p \in 1..Len(ret.value) : FeaturesNear(ret.value[p], 90)

\* whether every record was generated as y = 2*f1 + 3*f2 + 0*f3 + 0*f4 + 1
NoiseFree(students) ==
    \A i \in 1..Len(students) :
        students[i].assessment_score =
            Add(Add(Mul(Num(2), students[i].comprehension),
                    Mul(Num(3), students[i].attention)), Num(1))

\* |a - b| <= 1e-6
Within(a, b) == Le(MathAbs(Sub(a, b)), Frac(1, 1000000))

C18_EmptyClusterKeepsCentroid ==
    [][(km.pc = "loop" /\ km'.pc = "loop" /\ km'.iter = km.iter + 1) =>
          \A c \in 1..km.k :
              (\A r \in 1..Len(km'.labels) : km'.labels[r] # c - 1) =>
                  km'.centroids[c] = km.centroids[c]]_vars

\* the assignment of the points to the centroids of the round about to run
NewLabels == [r \in 1..Len(km.data) |-> NearestCentroid(km.data[r], km.centroids)]

InTrainingSpace(students, student) ==
    LET features == [r \in 1..Len(students) |-> ClusterFeatureRow(students[r])]
        row == <<OrZero(student, "comprehension"), OrZero(student, "attention"),
                 OrZero(student, "focus"), OrZero(student, "retention")>>
    IN  Only({ Only({ [d \in 1..Len(row) |->
                         Div(Sub(row[d], means[d]), OrOne(stds[d]))] :
                        stds \in {Stds(features, means)} }) :
                 means \in {Means(features)} })

\* C20: predictCluster maps the record into the normalized space of the
\* training data, with the mean and standard deviation of each feature that
\* were computed when clusterStudents ran, then measures the Euclidean
\* distance to the stored centroids and returns the summary of the nearest
\* cluster.
C20_PredictClusterUsesTrainingSpace ==
    [][(/\ call.op = "clusterStudents"
        /\ ret.status = "returned"
        /\ call'.op = "predictCluster") =>
          ret' = Returned(FindCluster(clusters,
                    NearestCentroid(InTrainingSpace(call.arg.students, call'.arg),
                                    centroids)))]_vars

---------------------------------------------------------------------------
(* Claims about the metrics *)

\* whether not all values of the series are equal
NonZeroVariance(x) == \E i, j \in 1..Len(x) : x[i] # x[j]

\* C14: for all series x and y of equal length calculateCorrelation(x, y)
\* equals calculateCorrelation(y, x), and calculateCorrelation(x, x) is 1
\* whenever x has non-zero variance.
C14_CorrelationSymmetric ==
    (call.op = "calculateCorrelation") =>
        /\ ret.status = "returned"
        /\ ret.value = CalculateCorrelation(call.arg[2], call.arg[1])
        /\ (call.arg[1] = call.arg[2] /\ NonZeroVariance(call.arg[1])) =>
              ret.value = Num(1)

\* C22: calculateCorrelation returns 0, and never divides by zero, whenever
\* either series has zero variance (all of its values equal), for every pair
\* of series of equal length.
C22_ZeroVarianceGivesZero ==
    (/\ call.op = "calculateCorrelation"
     /\ ~NonZeroVariance(call.arg[1]) \/ ~NonZeroVariance(call.arg[2])) =>
        /\ ret.status = "returned"
        /\ ret.value = Num(0)

---------------------------------------------------------------------------
(* Claims about both engine objects *)

---------------------------------------------------------------------------
(* Claims about FileUpload *)

\* whether the cell is a decimal number and nothing else
IsNumberText(cell) == \E t \in DecimalTexts : t[1] = cell

\* whether the file has all nine required columns and a number in every
\* cell of the six numeric columns
WellFormed(file) ==
    /\ \A field \in RequiredFields :
          \E c \in 1..Len(file.lines[1]) : file.lines[1][c] = field
    /\ \A i \in 2..Len(file.lines) : \A c \in 1..Len(file.lines[1]) :
          file.lines[1][c] \in NumericFields =>
              /\ c <= Len(file.lines[i])
              /\ IsNumberText(Unquote(file.lines[i][c]))

\* whether processFile call id has finished
Finished(id) == id \in 1..Len(uploaded) /\ \A c \in reading : c.id # id

\* C16: processFile hands records to onDataLoad only when the file has all
\* nine required columns and every value in the six numeric columns is a
\* number; for any other file it calls onError and does not call onDataLoad.
C16_UploadValidatesTypes ==
    \A id \in 1..Len(uploaded) :
        /\ (\E i \in 1..Len(callbacks) :
               callbacks[i].id = id /\ callbacks[i].callback = "onDataLoad")
              => WellFormed(uploaded[id])
        /\ (Finished(id) /\ ~WellFormed(uploaded[id])) =>
              \E i \in 1..Len(callbacks) :
                  callbacks[i].id = id /\ callbacks[i].callback = "onError"

---------------------------------------------------------------------------
(* Claims about StudentTable *)

\* whether the two characters are the same letter in either case, or equal
SameLetter(c, d) ==
    \/ c = d
    \/ \E k \in 1..Len(LowerCaseLetters) :
          {c, d} = {LowerCaseLetters[k], UpperCaseLetters[k]}

\* whether text contains part, case-insensitively
ContainsIgnoringCase(text, part) ==
    \E start \in 0..(Len(text) - Len(part)) :
        \A i \in 1..Len(part) : SameLetter(text[start + i], part[i])

\* whether the student matches the search term and all active filters
MatchesTable(student) ==
    /\ \/ searchTerm = <<>>
       \/ ContainsIgnoringCase(student.name, searchTerm)
       \/ ContainsIgnoringCase(student.student_id, searchTerm)
       \/ ContainsIgnoringCase(student.class, searchTerm)
    /\ filterConfig.class # AllClasses => student.class = filterConfig.class
    /\ filterConfig.performanceLevel # "all" =>
          GetPerformanceLevel(student.assessment_score) = filterConfig.performanceLevel
    /\ filterConfig.minScore # "" =>
          Le(ToNumber(filterConfig.minScore), student.assessment_score)
    /\ filterConfig.maxScore # "" =>
          Le(student.assessment_score, ToNumber(filterConfig.maxScore))

\* whether a may stand before b in a list ordered by the field, ascending
AscendingPair(a, b, field) ==
    IF field \in StringFields THEN LocaleCompare(a[field], b[field]) <= 0
    ELSE Le(a[field], b[field])

\* the list the table shows
ShownStudents ==
    FilteredAndSortedStudents(TableStudents, searchTerm, sortConfig, filterConfig)

\* C17: the filtered list contains exactly the students that match the search
\* term (case-insensitively, in name, id or class) and all active filters,
\* and when a sort field is set the list is ordered by that field, ascending
\* or descending as selected.
C17_FilteredAndSorted ==
    \A shown \in {ShownStudents} :
        /\ \A i \in 1..Len(TableStudents) :
              Cardinality({p \in 1..Len(shown) : shown[p] = TableStudents[i]})
                = IF MatchesTable(TableStudents[i]) THEN 1 ELSE 0
        /\ \A p \in 1..Len(shown) :
              \E i \in 1..Len(TableStudents) : shown[p] = TableStudents[i]
        /\ sortConfig.field # NoSortField =>
              \A p \in 1..(Len(shown) - 1) :
                  IF sortConfig.direction = "asc"
                  THEN AscendingPair(shown[p], shown[p + 1], sortConfig.field)
                  ELSE AscendingPair(shown[p + 1], shown[p], sortConfig.field)

\* a search typed in upper case with a class filter and a descending sort by
\* name, showing several students and leaving some out
C17_Witness ==
    /\ searchTerm = <<"A", "N">>
    /\ filterConfig.class = <<"B">>
    /\ sortConfig = [field |-> "name", direction |-> "desc"]
    /\ \E shown \in {ShownStudents} :
          /\ Len(shown) >= 1
          /\ Len(shown) < Len(TableStudents)
          /\ \E p \in 1..Len(shown) : shown[p].name = <<"a", "n", "n">>

---------------------------------------------------------------------------
(* Claims about the summaries of clusterStudents *)

\* the records of the call that k-means labelled with the cluster
LabelledWith(clusterId) ==
    {r \in 1..Len(call.arg.students) : km.labels[r] = clusterId}

\* the mean assessment_score of the records r of the set members
MeanScore(members) ==
    Div(Sum([r \in 1..Len(call.arg.students) |->
               IF r \in members THEN call.arg.students[r].assessment_score
               ELSE Num(0)]),
        Num(Cardinality(members)))

\* a centroid in the units of the features: normalizeFeatures maps x to
\* (x - mean) / (std || 1), so a coordinate z stands for z * (std || 1) + mean
InOriginalUnits(students, centroid) ==
    LET features == [r \in 1..Len(students) |-> ClusterFeatureRow(students[r])]
    IN  Only({ Only({ [d \in 1..Len(centroid) |->
                         Add(Mul(centroid[d], OrOne(stds[d])), means[d])] :
                        stds \in {Stds(features, means)} }) :
                 means \in {Means(features)} })

\* C21: in every summary returned by clusterStudents, count is the number of
\* input records k-means labelled with the cluster, avg_assessment_score is
\* the mean assessment_score of exactly those records, and the four feature
\* values are the centroid of the cluster in the original units of the
\* features.
C21_SummaryDescribesCluster ==
    (call.op = "clusterStudents" /\ ret.status = "returned") =>
        \A p \in 1..Len(ret.value) :
            \A members \in {LabelledWith(ret.value[p].cluster_id)},
               centroid \in {InOriginalUnits(call.arg.students,
                                             centroids[ret.value[p].cluster_id + 1])} :
                /\ ret.value[p].characteristics.count = Num(Cardinality(members))
                /\ members # {} =>
                     /\ ret.value[p].characteristics.avg_assessment_score = MeanScore(members)
                     /\ ret.value[p].characteristics.comprehension = centroid[1]
                     /\ ret.value[p].characteristics.attention = centroid[2]
                     /\ ret.value[p].characteristics.focus = centroid[3]
                     /\ ret.value[p].characteristics.retention = centroid[4]

---------------------------------------------------------------------------
(* Claims about Dashboard *)

\* C23: whenever Dashboard has left the loading state and renders Charts,
\* StudentTable or InsightsSection, the regression model passed to them is
\* trained and the clusterer holds cluster summaries, so that what they do
\* with mlModel.predict and clusterer.getClusters does not fail; for every
\* students list, including one for which training throws.
C23_RenderedModelsAreTrained ==
    ~isLoading =>
        /\ isTrained
        /\ clustererIsTrained
        /\ Len(clusters) > 0
        /\ call.op \in {"predict", "predictCluster", "getClusters",
                        "largestCluster", "modelPerformance"} =>
              ret.status = "returned"

---------------------------------------------------------------------------
(* Claims about the pages of StudentTable *)

\* C24: in StudentTable, after any sequence of search edits, filter changes,
\* clear-filters, sort clicks, page-size changes and Previous/Next/page-number
\* clicks, currentPage is within 1..max(1, totalPages), and the displayed
\* page is not empty while the filtered list is not empty.
C24_CurrentPageWithinPages ==
    \A totalPages \in {TotalPages(PagedStudents, searchTerm, sortConfig, filterConfig,
                                  pageSize)} :
        /\ currentPage >= 1
        /\ currentPage <= (IF totalPages > 1 THEN totalPages ELSE 1)
        /\ totalPages > 0 =>
              Len(PaginatedStudents(PagedStudents, searchTerm, sortConfig, filterConfig,
                                    currentPage, pageSize)) > 0

---------------------------------------------------------------------------
(* Claims about the calls of processFile *)

\* the last processFile call that invoked a callback
LastCall == callbacks[Len(callbacks)].id

\* C25: in FileUpload, isProcessing is true whenever some processFile call
\* for a .csv file has started and not yet finished, also when a second file
\* is dropped while an earlier one is being read; and when the last call has
\* finished, uploadStatus and fileName refer to the same file.
C25_ProcessingWhileReading ==
    /\ reading # {} => isProcessing
    /\ (/\ reading = {}
        /\ Len(callbacks) > 0
        /\ EndsWithCsv(uploaded[LastCall].name)
        /\ uploadStatus # "idle") =>
           fileName = uploaded[LastCall].name

\* C26: every completed processFile call has invoked exactly one of
\* onDataLoad and onError, exactly once, and leaves uploadStatus at
\* 'success' if and only if it invoked onDataLoad and at 'error' if and only
\* if it invoked onError.
C26_OneCallbackPerCall ==
    [][\A id \in 1..Len(uploaded') :
          (/\ \A c \in reading' : c.id # id
           /\ ~Finished(id)) =>
              LET ofCall == {i \in 1..Len(callbacks') : callbacks'[i].id = id}
              IN  /\ Cardinality(ofCall) = 1
                  /\ \A i \in ofCall :
                        /\ uploadStatus' = "success" <=>
                              callbacks'[i].callback = "onDataLoad"
                        /\ uploadStatus' = "error" <=>
                              callbacks'[i].callback = "onError"]_vars

---------------------------------------------------------------------------
(* Claims about failing calls of clusterStudents *)

\* C27: a clusterStudents call that fails leaves the trained flag, the
\* centroids and the cluster summaries of the StudentClusterer as they were
\* before the call.
C27_FailedClusteringChangesNothing ==
    [][(/\ call'.op = "clusterStudents"
        /\ ret'.status = "threw"
        /\ ret.status # "threw") =>
            /\ clustererIsTrained' = clustererIsTrained
            /\ centroids' = centroids
            /\ clusters' = clusters]_vars

---------------------------------------------------------------------------
(* Claims about predictCluster on the records of the run *)

\* C28: after a clusterStudents call whose k-means converged, predictCluster
\* of a record of the list passed to it returns the summary of the cluster
\* clusterStudents assigned the record to.
C28_PredictClusterAgreesWithLabels ==
    [][(/\ call.op = "clusterStudents"
        /\ ret.status = "returned"
        /\ km.stop = "converged"
        /\ call'.op = "predictCluster") =>
            \A r \in 1..Len(call.arg.students) :
                call.arg.students[r] = call'.arg =>
                    ret' = Returned(FindCluster(clusters, km.labels[r]))]_vars

---------------------------------------------------------------------------
(* Claims about the partition by clusterStudents *)

\* C29: the summaries returned by clusterStudents partition the input: every
\* record is counted in exactly one cluster, the counts of the summaries sum
\* to the number of records, and the summaries have distinct cluster_ids in
\* 0..k-1.
C29_SummariesPartitionInput ==
    (call.op = "clusterStudents" /\ ret.status = "returned") =>
        /\ \A r \in 1..Len(call.arg.students) :
              Cardinality({p \in 1..Len(ret.value) :
                              ret.value[p].cluster_id = km.labels[r]}) = 1
        /\ \A p \in 1..Len(ret.value) :
              ret.value[p].characteristics.count =
                  Num(Cardinality(LabelledWith(ret.value[p].cluster_id)))
        /\ Sum([p \in 1..Len(ret.value) |-> ret.value[p].characteristics.count])
              = Num(Len(call.arg.students))
        /\ \A p \in 1..Len(ret.value) :
              /\ ret.value[p].cluster_id \in 0..(call.arg.numClusters - 1)
              /\ \A q \in 1..Len(ret.value) :
                    ret.value[p].cluster_id = ret.value[q].cluster_id => p = q

\* clusterStudents has returned summaries of two clusters with one record each
\* and of a cluster with none
C29_Witness ==
    /\ call.op = "clusterStudents"
    /\ ret.status = "returned"
    /\ Len(ret.value) = 3
    /\ Cardinality({p \in 1..Len(ret.value) :
                       ret.value[p].characteristics.count = Num(1)}) = 2

---------------------------------------------------------------------------
(* Claims about debounce *)

\* whether call j of the debounced function is the last call of a burst that
\* is over: the call after it was made delay or more after it
EndsBurst(j) ==
    /\ j < Len(debounced)
    /\ debounced[j + 1].time - debounced[j].time >= DebounceDelay

\* the invocations of func made after call j and before the call after it
InvocationsAfter(j) == {i \in 1..Len(invoked) : invoked[i].calls = j}

\* func is not invoked earlier than delay after the most recent call, and
\* with the arguments of that call
NotBeforeDelay ==
    \A i \in 1..Len(invoked) :
        /\ invoked[i].calls >= 1
        /\ invoked[i].time >= debounced[invoked[i].calls].time + DebounceDelay
        /\ invoked[i].arg = debounced[invoked[i].calls].arg

\* C30 as stated: func is never invoked earlier than delay after the most
\* recent call, and a burst of calls, each made less than delay after the one
\* before, results in exactly one invocation of func, with the arguments of
\* the last call of the burst.
C30_BurstInvokesOnce ==
    /\ NotBeforeDelay
    /\ \A j \in 1..Len(debounced) :
          /\ Cardinality(InvocationsAfter(j)) <= 1
          /\ EndsBurst(j) => Cardinality(InvocationsAfter(j)) = 1

\* C30, corrected: func is never invoked earlier than delay after the most
\* recent call; a burst of calls results in at most one invocation of func,
\* with the arguments of the last call of the burst, and in none when the
\* next call is made before the timer of the burst has run; after the last
\* call either its timer is pending or func was invoked exactly once.
C30_BurstInvokesAtMostOnce ==
    /\ NotBeforeDelay
    /\ \A j \in 1..Len(debounced) :
          /\ Cardinality(InvocationsAfter(j)) <= 1
          /\ (j < Len(debounced) /\ ~EndsBurst(j)) => InvocationsAfter(j) = {}
    /\ Len(debounced) > 0 =>
          /\ Cardinality(timers) + Cardinality(InvocationsAfter(Len(debounced))) = 1
          /\ \A t \in timers : t.id = timeoutId /\ t.arg = debounced[Len(debounced)].arg

\* func was invoked once after a burst of two calls with different
\* arguments, and once after a later call
C30_Witness ==
    /\ Len(debounced) = 3
    /\ ~EndsBurst(1)
    /\ EndsBurst(2)
    /\ debounced[1].arg # debounced[2].arg
    /\ Len(invoked) = 2
    /\ invoked[1].calls = 2
    /\ invoked[2].calls = 3

=========================================================================
